---- MODULE Spec2Model ----
(***************************************************************************)
(* Verification model of jmod (tsukinoko-kun/jmod): the package cache      *)
(* (registry.CachePut / lockCache / CacheHas), the archive extractor       *)
(* (extractTarReadSeeker / secureJoin), and the installer (install.Run,    *)
(* config.ResolveDependenciesDeep / runGo, link, lifecycle scripts,        *)
(* cancellation with cause).                                               *)
(***************************************************************************)
EXTENDS Integers, Sequences, FiniteSets, TLC

None == "none"

\* Absent values of the optional parts of the state.
NoSum == <<"none", None>>

NoDir == [content |-> None, state |-> "absent"]

NoFile == [content |-> None, complete |-> FALSE]

NoTarball == [content |-> None, sidecar |-> NoSum]

\* The context of the run is not cancelled.
NoCause == <<"none">>

NoResult == [ok |-> FALSE, path |-> <<>>, err |-> "pending"]

(***************************************************************************)
(* Part 1.  The package cache: concurrent CachePut callers.                *)
(***************************************************************************)

\* Number of concurrent CachePut callers in the cache specification.
NumCallers == 3

Callers == 1..NumCallers

\* Cache keys (registry, name, version) (lockCache, line 42); version n stands
\* for the directory name "n.0.0".
Keys == { <<"npm", "a", 1>>, <<"npm", "a", 2>>, <<"npm", "b", 1>> }

\* Archive contents a tarball URL can deliver.  "genuine" is the archive the
\* registry's integrity value was computed over when it is well-formed,
\* "malformed" is an archive without package.json, "tampered" is a
\* well-formed archive with other bytes.
Contents == {"genuine", "malformed", "tampered"}

\* hasherFor / h.Sum: the digest of an archive (collision-free).
Digest(content) == <<"sha512", content>>

VARIABLES
    keyOf,        \* caller -> key of its Resolveable
    expSum,       \* key -> expected checksum of the Resolveable (GetChecksum)
    cpc,          \* caller -> position inside CachePut
    cacheLock,    \* set holding the caller that owns the mutex cacheLock
    cacheLocks,   \* set of keys that have a mutex in the map cacheLocks
    keyHolder,    \* key -> set holding the caller that owns the key's mutex
    finalDir,     \* key -> what the final directory holds, or NoDir
    tmpFiles,     \* caller -> state of its .download-*.tmp file, or NoFile
    staging,      \* caller -> state of its .extract-* directory, or NoDir
    gotSum,       \* caller -> digest returned by downloadToTempWithChecksum
    result,       \* caller -> the (path, err) CachePut returned, or NoResult
    tarballCache, \* key -> the tarball-cache file + sidecar digest, or NoTarball
    downloads,    \* caller -> number of downloads/extractions it performed
    ctxDone       \* cause of the cancellation of the run's context, or NoCause

cacheVars == <<keyOf, expSum, cpc, cacheLock, cacheLocks, keyHolder, finalDir,
               tmpFiles, staging, gotSum, result, tarballCache, downloads>>

VARIABLES
    archive,      \* the tar stream: the sequence of entry headers
    xpc,          \* position of extractTarReadSeeker
    xidx,         \* index of the next entry of the second pass
    rootDir,      \* root prefix found by determineTarRoot
    fs,           \* the filesystem: absolute path -> node
    extractedPkgJSON, \* the flag of extractTarReadSeeker, line 676
    touched,      \* resolved paths of every object the extractor made or wrote
    xerr          \* the error extractTarReadSeeker returned, or None

extractVars == <<archive, xpc, xidx, rootDir, fs, extractedPkgJSON, touched, xerr>>

VARIABLES
    cfg,          \* the run's inputs: flags of install.Run and manifest data
    run,          \* 1 in the first install run of the process, 2 in a second one
    spawned,      \* number of mods the loop of the top-level Run has passed
    tpc,          \* mod directory -> position of its workspace task
    tscript,      \* mod directory -> lifecycle script its task is busy with
    tdep,         \* mod directory -> the resolved dependency its task handles
    ppc,          \* (mod, manifest key) -> position of the runGo producer
    pver,         \* (mod, manifest key) -> version Npm_Resolve chose
    ch,           \* mod directory -> buffered channel of ResolveDependenciesDeep
    links,        \* (mod, manifest key) -> target of node_modules/<key>
    binLinks,     \* (mod, bin name) -> target of node_modules/.bin/<name>
    lifecycleScriptsSeen, \* the dedup set of shouldRunLifecycleScript
    installedPackages,    \* the dedup set of shouldProcessPackage
    scriptState,  \* (mod, script) -> "none", "running", "ok" or "failed"
    scriptRuns,   \* (mod, script) -> times the script body was started
    fetched,      \* key -> times its tarball was downloaded in the install runs
    cancelCalls,  \* arguments of the calls of meta.CancelCause, in order
    failed,       \* the errors the run has logged or cancelled with
    lpc,          \* caller of runLifecycleScript -> its position
    ltarget,      \* caller of runLifecycleScript -> (directory, script)
    exit,         \* what main reported at exit, or NoExit
    faults,       \* number of failures the environment has injected
    firstRun      \* links and cache entries when the first run had ended

installVars == <<cfg, run, spawned, tpc, tscript, tdep, ppc, pver, ch, links,
                 binLinks, lifecycleScriptsSeen, installedPackages, scriptState,
                 scriptRuns, fetched, cancelCalls, failed, lpc, ltarget, exit,
                 faults, firstRun>>

VARIABLES
    program,      \* statusui.program: 0 when nil, else the number of the tea.Program
    started,      \* number of programs statusui.Start has created
    statuses,     \* model.statuses of the running program: key -> kind of status
    errorShown,   \* CachePut caller -> it has called Set with an ErrorStatus
    clearPending, \* CachePut callers whose clearing goroutine has yet to run
    upc,          \* client of the status UI -> position inside Set / Clear
    uarg,         \* client of the status UI -> the message it is about to send
    uret          \* client of the status UI -> what its last call returned

\* The variables of the status UI that only Start, Stop and its clients change.
uiFrame == <<started, upc, uarg, uret>>

statusVars == <<program, started, statuses, errorShown, clearPending, upc,
                uarg, uret>>

VARIABLES
    joinBase,     \* secureJoin: the base directory of the call
    joinName,     \* secureJoin: the entry name of the call
    joinResult    \* secureJoin: what the call returned, or NoJoin before it

joinVars == <<joinBase, joinName, joinResult>>

VARIABLES
    mod,          \* config.Mod: its three dependency maps
    modErr        \* what the last config.Install / config.Uninstall returned

modVars == <<mod, modErr>>

VARIABLES
    fileDeps,     \* directory -> the paths its package.json names with file:
    calls,        \* the calls of install.Run made so far, in order
    wtask         \* (call, mod) -> the workspace task the call started for it

cycleVars == <<fileDeps, calls, wtask>>

VARIABLES
    tm,           \* statusui model: its statuses map and its ordered keys
    tmShadow,     \* the model the same messages without those of tmKey produce
    tmKey,        \* the key whose operation is cancelled
    tmLast        \* the last message model.Update has handled

tmVars == <<tm, tmShadow, tmKey, tmLast>>

VARIABLES
    spc,          \* caller of shouldProcessPackage -> its position
    spath,        \* caller of shouldProcessPackage -> the path it asks about
    sret          \* caller of shouldProcessPackage -> what the call returned

procVars == <<spc, spath, sret>>

VARIABLES
    lfs,          \* link: the filesystem
    lfs0,         \* link: the filesystem before the first call
    lfs1,         \* link: the filesystem after the first call
    lorig,        \* link: the parameter original (the target of the link)
    lret          \* link: what the calls made so far returned, in order

linkVars == <<lfs, lfs0, lfs1, lorig, lret>>

VARIABLES
    wtree,        \* FindSubMods: directory -> what the walk finds there
    wpc,          \* FindSubMods: position of the walk
    wpos,         \* FindSubMods: index in the walk order of the directory at hand
    subMods,      \* FindSubMods: the manifests appended so far, in order
    wlog          \* FindSubMods: the directories logger.Errorf has named

walkVars == <<wtree, wpc, wpos, subMods, wlog>>

VARIABLES
    sdeps,        \* stream: the number of runGo goroutines started
    srun,         \* stream: how many of them have not come to their send
    ssend,        \* stream: how many are at the select with the send
    sch,          \* stream: the number of values in the channel's buffer
    sclosed,      \* stream: close(ch) has been called
    scons,        \* stream: position of the task that ranges over the channel
    sctx          \* stream: the context is cancelled

streamVars == <<sdeps, srun, ssend, sch, sclosed, scons, sctx>>

VARIABLES
    ignoreMatchers, \* package ignore: the paths that are keys of the map
    ipc,            \* task -> its position in GetIgnoreMatcher
    ipath,          \* task -> the root its Run calls FindSubMods with
    ifatal          \* the runtime has ended the process: concurrent map access

ignoreVars == <<ignoreMatchers, ipc, ipath, ifatal>>

\* The variables of the specifications of discovery and of the stream.
extraVars == <<walkVars, streamVars, ignoreVars>>

\* The variables of the specifications of the single units that follow the
\* recursion of Run.
unitVars == <<tmVars, procVars, linkVars, extraVars>>

\* The variables of the install run but installedPackages.
installOther ==
    <<cfg, run, spawned, tpc, tscript, tdep, ppc, pver, ch, links, binLinks,
      lifecycleScriptsSeen, scriptState, scriptRuns, fetched, cancelCalls,
      failed, lpc, ltarget, exit, faults, firstRun>>

\* The variables of the specifications of single functions and packages.
sideVars == <<joinVars, modVars, cycleVars, unitVars>>

\* The variables of the cache, the extractor, the install run and the
\* status UI.
mainVars == <<cacheVars, ctxDone, extractVars, installVars, statusVars>>

\* What the steps of model.Update leave alone.
tmFrame ==
    <<mainVars, joinVars, modVars, cycleVars, procVars, linkVars, extraVars>>

\* What the calls of link leave alone.
linkFrame ==
    <<mainVars, joinVars, modVars, cycleVars, tmVars, procVars, extraVars>>

\* The variables of the parts before discovery.
baseVars ==
    <<mainVars, joinVars, modVars, cycleVars, tmVars, procVars, linkVars>>

\* What the walk of FindSubMods leaves alone.
walkFrame == <<baseVars, streamVars, ignoreVars>>

\* What the goroutines of a dependency stream leave alone.
streamFrame == <<baseVars, walkVars, ignoreVars>>

\* What the callers of GetIgnoreMatcher leave alone.
ignoreFrame == <<baseVars, walkVars, streamVars>>

\* What the callers of shouldProcessPackage leave alone.
procFrame ==
    <<cacheVars, ctxDone, extractVars, statusVars, installOther, joinVars,
      modVars, cycleVars, tmVars, linkVars, extraVars>>

nonCacheVars == <<extractVars, installVars, sideVars>>

vars == <<cacheVars, ctxDone, extractVars, installVars, statusVars, sideVars>>

\* CachePut lines 130-135 and 142/265: the path handed back to the caller.
PackageLocation(k) == <<"cache_root">> \o k

PackagePath(k) == PackageLocation(k) \o <<"package">>

\* Errors that compare equal to context.Canceled / context.DeadlineExceeded.
CancelErrs == {"context canceled", "deadline exceeded"}

Ok(path) == [ok |-> TRUE, path |-> path, err |-> None]

Fail(e) == [ok |-> FALSE, path |-> <<>>, err |-> e]

\* The messages statusui.Set and statusui.Clear send to the program; a Status
\* is one of TextStatus, ProgressStatus, ErrorStatus and SuccessStatus.
StatusKinds == {"text", "progress", "error", "success"}

setStatusMsg(key, status) == [type |-> "set", key |-> key, status |-> status]

clearStatusMsg(key) == [type |-> "clear", key |-> key, status |-> None]

\* model.Update: a setStatusMsg stores the status under its key, a
\* clearStatusMsg deletes the key.
Update(m, msg) ==
    IF msg.type = "set"
    THEN [m EXCEPT ![msg.key] = msg.status]
    ELSE [m EXCEPT ![msg.key] = None]

\* p.Send(msg): the message reaches Update of program p while p is the
\* running program; nil has no program and a program that has quit drops it.
Deliver(p, msg) ==
    IF p # 0 /\ p = program THEN Update(statuses, msg) ELSE statuses

\* statusui.Set(statusKey, status) called by CachePut.
StatusSet(c, kind) ==
    /\ statuses' = Deliver(program, setStatusMsg(keyOf[c], kind))
    /\ errorShown' = [errorShown EXCEPT ![c] = @ \/ kind = "error"]

\* statusui.Clear(statusKey) called by CachePut.
StatusClear(c) ==
    /\ statuses' = Deliver(program, clearStatusMsg(keyOf[c]))
    /\ UNCHANGED errorShown

\* An error handling that shows every error as an ErrorStatus.
StatusAlwaysError(c, e) == StatusSet(c, "error")

\* CachePut lines 168-179 and 222-232: a cancellation-typed error clears the
\* status entry, any other error is shown as an ErrorStatus.
StatusOfError(c, e) ==
    IF e \in CancelErrs THEN StatusClear(c) ELSE StatusSet(c, "error")

\* initialModel: no key has a status.
initialModel == [k \in Keys |-> None]

\* The key each caller's Resolveable names: callers 1 and 2 (and every caller
\* that is no multiple of 3) ask for the same package, the others for another.
KeyOfCaller(c) == IF c % 3 = 0 THEN <<"npm", "b", 1>> ELSE <<"npm", "a", 1>>

\* The key two callers contend for; the initial cache state varies for it.
SharedKey == KeyOfCaller(1)

\* What the tarball cache may hold for a URL when the process starts: nothing,
\* a file with its own digest as sidecar, or a file whose sidecar belongs to
\* other bytes.
TarballEntries ==
    { [content |-> "genuine", sidecar |-> Digest("genuine")],
      [content |-> "tampered", sidecar |-> Digest("tampered")],
      [content |-> "tampered", sidecar |-> Digest("genuine")] }

\* An archive the extractor can unpack to the end (it has a package.json).
WellFormed(content) == content \in {"genuine", "tampered"}

\* A per-key mutex that excludes nobody.
KeyMutexNeverHeld(k) == TRUE

\* lockCache, lines 43-44 and 49-50: mut.Lock() succeeds only when the
\* mutex of the key is free.
KeyMutexFree(k) == keyHolder[k] = {}

\* A digest comparison that accepts every pair.
CompareAcceptsAll(exp, got) == TRUE

\* CachePut line 196: subtle.ConstantTimeCompare(expSum, gotSum) == 1.
ConstantTimeCompare(exp, got) == exp = got

\* A return of CachePut whose deferred calls remove nothing.
ReturnKeepsArtifacts(c, res, rmTmp, rmStaging) ==
    /\ cpc' = [cpc EXCEPT ![c] = "done"]
    /\ result' = [result EXCEPT ![c] = res]
    /\ keyHolder' = [keyHolder EXCEPT ![keyOf[c]] = {}]
    /\ UNCHANGED <<tmpFiles, staging>>

\* A return of CachePut that leaves the mutex of the key locked.
ReturnKeepsKeyLocked(c, res, rmTmp, rmStaging) ==
    /\ cpc' = [cpc EXCEPT ![c] = "done"]
    /\ result' = [result EXCEPT ![c] = res]
    /\ UNCHANGED keyHolder
    /\ tmpFiles' = IF rmTmp THEN [tmpFiles EXCEPT ![c] = NoFile] ELSE tmpFiles
    /\ staging' = IF rmStaging THEN [staging EXCEPT ![c] = NoDir] ELSE staging

\* Deferred calls of CachePut on return: unlock, os.Remove(tmpArchive) when
\* the download succeeded, os.RemoveAll(staging) when staging was made.
Return(c, res, rmTmp, rmStaging) ==
    /\ cpc' = [cpc EXCEPT ![c] = "done"]
    /\ result' = [result EXCEPT ![c] = res]
    /\ keyHolder' = [keyHolder EXCEPT ![keyOf[c]] = {}]
    /\ tmpFiles' = IF rmTmp THEN [tmpFiles EXCEPT ![c] = NoFile] ELSE tmpFiles
    /\ staging' = IF rmStaging THEN [staging EXCEPT ![c] = NoDir] ELSE staging

\* lockCache line 40: cacheLock.Lock().
LockCacheEnter(c) ==
    /\ cpc[c] = "call"
    /\ cacheLock = {}
    /\ cacheLock' = {c}
    /\ cpc' = [cpc EXCEPT ![c] = "lockCache"]
    /\ UNCHANGED <<keyOf, expSum, cacheLocks, keyHolder, finalDir, tmpFiles,
                   staging, gotSum, result, tarballCache, downloads, ctxDone,
                   nonCacheVars, statusVars>>

\* lockCache lines 42-54: look the mutex up (or create it) and lock it while
\* cacheLock is held; the deferred cacheLock.Unlock() runs when mut.Lock()
\* has returned.
LockCacheAcquire(c) ==
    /\ cpc[c] = "lockCache"
    /\ cacheLock = {c}
    /\ KeyMutexFree(keyOf[c])
    /\ keyHolder' = [keyHolder EXCEPT ![keyOf[c]] = {c}]
    /\ cacheLocks' = cacheLocks \cup {keyOf[c]}
    /\ cacheLock' = {}
    /\ cpc' = [cpc EXCEPT ![c] = "stat"]
    /\ UNCHANGED <<keyOf, expSum, finalDir, tmpFiles, staging, gotSum, result,
                   tarballCache, downloads, ctxDone, nonCacheVars, statusVars>>

\* A stat that never finds the final directory.
EntryNeverExists(k) == FALSE

\* CachePut lines 139-143: os.Stat(packageLocation) finds the directory.
EntryExists(k) == finalDir[k] # NoDir

\* CachePut lines 139-153: os.Stat(packageLocation), then MkdirAll(parent).
StatFinal(c) ==
    /\ cpc[c] = "stat"
    /\ IF EntryExists(keyOf[c])
       THEN /\ Return(c, Ok(PackagePath(keyOf[c])), FALSE, FALSE)
            /\ UNCHANGED <<gotSum, statuses, errorShown>>
       ELSE \/ /\ cpc' = [cpc EXCEPT ![c] = "download"]
               /\ UNCHANGED <<result, keyHolder, tmpFiles, staging, gotSum,
                              statuses, errorShown>>
            \/ /\ Return(c, Fail("mkdir parent"), FALSE, FALSE)
               /\ StatusSet(c, "error")
               /\ UNCHANGED <<gotSum>>
    /\ UNCHANGED <<keyOf, expSum, cacheLock, cacheLocks, finalDir,
                   tarballCache, downloads, ctxDone, nonCacheVars, program,
                   clearPending, uiFrame>>

\* downloadToTempWithChecksum lines 282-310: a tarball-cache file is reused
\* when its recomputed digest equals the digest in its sidecar file.
CachedTarballUsable(k) ==
    /\ tarballCache[k] # NoTarball
    /\ ConstantTimeCompare(tarballCache[k].sidecar, Digest(tarballCache[k].content))

\* downloadToTempWithChecksum lines 277-332: tarball-cache lookup, then the
\* HTTP request and the creation of the .download-*.tmp file.
DownloadBegin(c) ==
    /\ cpc[c] = "download"
    /\ \/ \* cache hit: the cached tarball is copied to a fresh temp file
          /\ CachedTarballUsable(keyOf[c])
          /\ tmpFiles' = [tmpFiles EXCEPT ![c] =
                 [content |-> tarballCache[keyOf[c]].content, complete |-> TRUE]]
          /\ gotSum' = [gotSum EXCEPT ![c] = tarballCache[keyOf[c]].sidecar]
          /\ cpc' = [cpc EXCEPT ![c] = "verify"]
          /\ downloads' = [downloads EXCEPT ![c] = @ + 1]
          /\ StatusSet(c, "text")
          /\ UNCHANGED <<result, keyHolder, staging>>
       \/ \* the request is answered with status 200 and the temp file is made
          /\ ctxDone = NoCause
          /\ \E body \in Contents :
                tmpFiles' = [tmpFiles EXCEPT ![c] =
                    [content |-> body, complete |-> FALSE]]
          /\ cpc' = [cpc EXCEPT ![c] = "copy"]
          /\ downloads' = [downloads EXCEPT ![c] = @ + 1]
          /\ StatusSet(c, "progress")
          /\ UNCHANGED <<result, keyHolder, staging, gotSum>>
       \/ \* hasherFor, client.Do, the status check or CreateTemp fails
          /\ \E e \in IF ctxDone = NoCause
                      THEN {"http get", "deadline exceeded"}
                      ELSE {"context canceled"} :
                /\ Return(c, Fail(e), FALSE, FALSE)
                /\ StatusOfError(c, e)
          /\ UNCHANGED <<gotSum, downloads>>
    /\ UNCHANGED <<keyOf, expSum, cacheLock, cacheLocks, finalDir,
                   tarballCache, ctxDone, nonCacheVars, program, clearPending,
                   uiFrame>>

\* saveTarballToCache lines 487-521 (best effort: a failure changes nothing).
SaveTarballToCache(k, content, saved) ==
    IF saved
    THEN [tarballCache EXCEPT ![k] =
             [content |-> content, sidecar |-> Digest(content)]]
    ELSE tarballCache

\* downloadToTempWithChecksum lines 362-384: io.Copy into file and hasher,
\* fsync, close, h.Sum, saveTarballToCache.  On an error the function returns
\* "" as tmpPath, so CachePut registers no os.Remove for the temp file.
DownloadCopy(c) ==
    /\ cpc[c] = "copy"
    /\ \/ /\ ctxDone = NoCause
          /\ tmpFiles' = [tmpFiles EXCEPT ![c].complete = TRUE]
          /\ gotSum' = [gotSum EXCEPT ![c] = Digest(tmpFiles[c].content)]
          /\ \E saved \in BOOLEAN :
                tarballCache' = SaveTarballToCache(keyOf[c], tmpFiles[c].content, saved)
          /\ cpc' = [cpc EXCEPT ![c] = "verify"]
          /\ StatusSet(c, "progress")
          /\ UNCHANGED <<result, keyHolder, staging>>
       \/ /\ \E e \in IF ctxDone = NoCause
                      THEN {"copy"}
                      ELSE {"context canceled"} :
                /\ Return(c, Fail(e), FALSE, FALSE)
                /\ StatusOfError(c, e)
          /\ UNCHANGED <<gotSum, tarballCache>>
    /\ UNCHANGED <<keyOf, expSum, cacheLock, cacheLocks, finalDir, downloads,
                   ctxDone, nonCacheVars, program, clearPending, uiFrame>>

\* CachePut lines 184-217: compare the digests, then os.MkdirTemp(parent,
\* ".extract-*").
VerifyChecksum(c) ==
    /\ cpc[c] = "verify"
    /\ IF ~ConstantTimeCompare(expSum[keyOf[c]], gotSum[c])
       THEN /\ Return(c, Fail("checksum mismatch"), TRUE, FALSE)
            /\ StatusSet(c, "error")
       ELSE \/ /\ staging' = [staging EXCEPT ![c] =
                      [content |-> tmpFiles[c].content, state |-> "empty"]]
               /\ cpc' = [cpc EXCEPT ![c] = "extract"]
               /\ StatusSet(c, "text")
               /\ UNCHANGED <<result, keyHolder, tmpFiles>>
            \/ /\ Return(c, Fail("mktemp staging"), TRUE, FALSE)
               /\ StatusSet(c, "error")
    /\ UNCHANGED <<keyOf, expSum, cacheLock, cacheLocks, finalDir, gotSum,
                   tarballCache, downloads, ctxDone, nonCacheVars, program,
                   clearPending, uiFrame>>

\* CachePut lines 221-233, extractArchive: entries are written into the
\* staging directory one after the other; the extraction ends with success
\* only when the archive is well-formed, and may fail at any entry.
ExtractStep(c) ==
    /\ cpc[c] = "extract"
    /\ \/ /\ staging[c].state = "empty"
          /\ staging' = [staging EXCEPT ![c].state = "partial"]
          /\ UNCHANGED <<cpc, result, keyHolder, tmpFiles, statuses, errorShown>>
       \/ /\ staging[c].state = "partial"
          /\ WellFormed(staging[c].content)
          /\ staging' = [staging EXCEPT ![c].state = "complete"]
          /\ cpc' = [cpc EXCEPT ![c] = "rename"]
          /\ UNCHANGED <<result, keyHolder, tmpFiles, statuses, errorShown>>
       \/ \E e \in {"package.json not found in archive", "tar read"} :
             /\ (e = "package.json not found in archive")
                    => ~WellFormed(staging[c].content)
             /\ Return(c, Fail(e), TRUE, TRUE)
             /\ StatusOfError(c, e)
    /\ UNCHANGED <<keyOf, expSum, cacheLock, cacheLocks, finalDir, gotSum,
                   tarballCache, downloads, ctxDone, nonCacheVars, program,
                   clearPending, uiFrame>>

\* CachePut lines 235-265: os.RemoveAll(packageLocation), then
\* os.Rename(staging, packageLocation) publishes the entry.
RenameStaging(c) ==
    /\ cpc[c] = "rename"
    /\ \/ /\ finalDir' = [finalDir EXCEPT ![keyOf[c]] = staging[c]]
          /\ Return(c, Ok(PackagePath(keyOf[c])), TRUE, TRUE)
          /\ StatusSet(c, "success")
          /\ clearPending' = clearPending \cup {c}
       \/ /\ \E e \in {"rename staging"} :
                Return(c, Fail(e), TRUE, TRUE)
          /\ StatusSet(c, "error")
          /\ UNCHANGED <<finalDir, clearPending>>
    /\ UNCHANGED <<keyOf, expSum, cacheLock, cacheLocks, gotSum, tarballCache,
                   downloads, ctxDone, nonCacheVars, program, uiFrame>>

\* CachePut lines 257-263: the goroutine started after a successful install
\* clears the status entry when 100 ms have passed or the context is done.
ClearAfterInstall(c) ==
    /\ c \in clearPending
    /\ clearPending' = clearPending \ {c}
    /\ StatusClear(c)
    /\ UNCHANGED <<cacheVars, ctxDone, nonCacheVars, program, uiFrame>>

\* main lines 19-24 (an OS signal) or a failure elsewhere in the run cancels
\* the context while CachePut calls are in flight.
CancelDuringCache ==
    /\ ctxDone = NoCause
    /\ \E c \in Callers : cpc[c] # "done"
    /\ ctxDone' = <<"received interrupt">>
    /\ UNCHANGED <<cacheVars, nonCacheVars, statusVars>>


(***************************************************************************)
(* Part 2.  The archive extractor over a filesystem with symlinks.         *)
(***************************************************************************)

\* Longest archive (number of entry headers) the extraction specification reads.
MaxEntries == 3

\* Symlink expansions one path resolution may make before it fails (ELOOP).
MaxSymlinkHops == 4

\* Paths are sequences of components; an absolute path starts at the root <<>>.
ParentDir == <<"cache", "npm", "a">>

StagingDir == ParentDir \o <<".extract-1">>

Butlast(p) == SubSeq(p, 1, Len(p) - 1)

Last(p) == p[Len(p)]

IsPrefix(p, q) == Len(p) <= Len(q) /\ SubSeq(q, 1, Len(p)) = p

\* path.Clean / filepath.Clean on the components of a path: "." is dropped,
\* ".." removes the component before it, climbs above a relative start, and
\* is dropped at the root of an absolute path.
RECURSIVE CleanFrom(_, _, _)
CleanFrom(done, rest, abs) ==
    IF rest = <<>> THEN done
    ELSE LET c == Head(rest) IN
         IF c = "." THEN CleanFrom(done, Tail(rest), abs)
         ELSE IF c = ".."
              THEN IF done # <<>> /\ Last(done) # ".."
                   THEN CleanFrom(Butlast(done), Tail(rest), abs)
                   ELSE IF abs THEN CleanFrom(done, Tail(rest), abs)
                        ELSE CleanFrom(Append(done, ".."), Tail(rest), abs)
              ELSE CleanFrom(Append(done, c), Tail(rest), abs)

Clean(comps, abs) == CleanFrom(<<>>, comps, abs)

\* A name of a tar header: components and whether it starts with "/".
Name(abs, comps) == [abs |-> abs, comps |-> comps]

NoName == Name(FALSE, <<>>)

\* normalizeTarPath, lines 884-901.  The result "" (skip) is <<>>.
normalizeTarPath(name) ==
    LET cleaned == Clean(name.comps, name.abs) IN
    IF cleaned # <<>> /\ Head(cleaned) = ".."
    THEN [err |-> "path escapes root", path |-> <<>>]
    ELSE IF name.abs
         THEN [err |-> "absolute path in archive", path |-> <<>>]
         ELSE [err |-> None, path |-> cleaned]

\* trimTarPath, lines 903-915.
trimTarPath(normalized, root) ==
    IF root = <<>> THEN [ok |-> TRUE, path |-> normalized]
    ELSE IF normalized = root THEN [ok |-> TRUE, path |-> <<>>]
    ELSE IF IsPrefix(root, normalized)
         THEN [ok |-> TRUE,
               path |-> SubSeq(normalized, Len(root) + 1, Len(normalized))]
         ELSE [ok |-> FALSE, path |-> <<>>]

\* A secureJoin that returns the joined path without the containment check.
secureJoinUnchecked(base, name) ==
    [err |-> None,
     path |-> Clean(base \o Clean(name.comps, name.abs), TRUE)]

\* secureJoin, lines 945-975: a lexical containment check of Join(base, name).
\* The base is an absolute path, so filepath.Abs is filepath.Clean.  The
\* prefix that is compared is absBase followed by a separator: for the root
\* directory that is "//", which no cleaned path starts with.
secureJoin(base, name) ==
    LET clean == Clean(name.comps, name.abs)
        absBase == Clean(base, TRUE)
        absFull == Clean(base \o clean, TRUE)
    IN  IF name.abs
        THEN [err |-> "absolute path in archive", path |-> <<>>]
        ELSE IF absFull = absBase
                \/ (absBase # <<>> /\ IsPrefix(absBase, absFull))
             THEN [err |-> None, path |-> absFull]
             ELSE [err |-> "path escapes dest", path |-> <<>>]

\* Filesystem nodes.
DirNode == [kind |-> "dir", target |-> NoName, ino |-> 0]

FileNode(ino) == [kind |-> "file", target |-> NoName, ino |-> ino]

SymlinkNode(target) == [kind |-> "symlink", target |-> target, ino |-> 0]

IsDirAt(f, p) == p \in DOMAIN f /\ f[p].kind = "dir"

\* Path resolution as the kernel does it: symlinks in every component but the
\* last are followed; the last one is followed when followFinal is set.  The
\* result is the resolved location (which need not exist).
RECURSIVE Walk(_, _, _, _, _)
Walk(f, cur, rest, followFinal, fuel) ==
    IF rest = <<>> THEN [ok |-> TRUE, path |-> cur]
    ELSE LET c == Head(rest)
             more == Tail(rest)
             next == Append(cur, c)
         IN  IF c = "." THEN Walk(f, cur, more, followFinal, fuel)
             ELSE IF c = ".."
             THEN Walk(f, IF cur = <<>> THEN cur ELSE Butlast(cur), more,
                       followFinal, fuel)
             ELSE IF next \notin DOMAIN f
             THEN [ok |-> more = <<>> /\ IsDirAt(f, cur), path |-> next]
             ELSE IF f[next].kind = "symlink" /\ (more # <<>> \/ followFinal)
             THEN IF fuel = 0 THEN [ok |-> FALSE, path |-> next]
                  ELSE Walk(f, IF f[next].target.abs THEN <<>> ELSE cur,
                            f[next].target.comps \o more, followFinal, fuel - 1)
             ELSE IF more # <<>> /\ f[next].kind # "dir"
             THEN [ok |-> FALSE, path |-> next]
             ELSE Walk(f, next, more, followFinal, fuel)

Resolve(f, p, followFinal) == Walk(f, <<>>, p, followFinal, MaxSymlinkHops)

FsFail(f) == [ok |-> FALSE, fs |-> f, made |-> {}]

FsOk(f, made) == [ok |-> TRUE, fs |-> f, made |-> made]

Put(f, p, node) == [q \in DOMAIN f \cup {p} |-> IF q = p THEN node ELSE f[q]]

\* os.Mkdir: the last component is not followed.
Mkdir(f, p) ==
    LET r == Resolve(f, p, FALSE) IN
    IF ~r.ok \/ r.path \in DOMAIN f THEN FsFail(f)
    ELSE FsOk(Put(f, r.path, DirNode), {r.path})

\* os.MkdirAll: nothing to do when Stat finds a directory; else make the
\* parent, then the directory itself.
RECURSIVE MkdirAll(_, _)
MkdirAll(f, p) ==
    LET st == Resolve(f, p, TRUE) IN
    IF st.ok /\ st.path \in DOMAIN f
    THEN IF f[st.path].kind = "dir" THEN FsOk(f, {}) ELSE FsFail(f)
    ELSE IF p = <<>> THEN FsFail(f)
    ELSE LET up == MkdirAll(f, Butlast(p)) IN
         IF ~up.ok THEN up
         ELSE LET m == Mkdir(up.fs, p) IN
              IF m.ok THEN FsOk(m.fs, up.made \cup m.made)
              ELSE [ok |-> FALSE, fs |-> up.fs, made |-> up.made]

\* os.OpenFile(target, O_CREATE|O_WRONLY|O_TRUNC) followed by io.Copy: the
\* open follows symlinks, also in the last component.  Writing a file changes
\* the object under every path that is a hard link to it.
WriteFile(f, p, ino) ==
    LET r == Resolve(f, p, TRUE) IN
    IF ~r.ok THEN FsFail(f)
    ELSE IF r.path \in DOMAIN f
    THEN IF f[r.path].kind # "file" THEN FsFail(f)
         ELSE FsOk(f, {q \in DOMAIN f :
                          f[q].kind = "file" /\ f[q].ino = f[r.path].ino})
    ELSE FsOk(Put(f, r.path, FileNode(ino)), {r.path})

\* os.Remove: removes the object the last component names (not followed); a
\* directory that is not empty stays.  The extractor ignores the error.
Remove(f, p) ==
    LET r == Resolve(f, p, FALSE) IN
    IF ~r.ok \/ r.path \notin DOMAIN f \/ r.path = <<>> THEN f
    ELSE IF \E q \in DOMAIN f : q # r.path /\ IsPrefix(r.path, q) THEN f
    ELSE [q \in DOMAIN f \ {r.path} |-> f[q]]

\* os.Symlink(linkname, target).
Symlink(f, linkname, p) ==
    LET r == Resolve(f, p, FALSE) IN
    IF ~r.ok \/ r.path \in DOMAIN f THEN FsFail(f)
    ELSE FsOk(Put(f, r.path, SymlinkNode(linkname)), {r.path})

\* os.Link(old, new): linkat without AT_SYMLINK_FOLLOW.
Link(f, old, new) ==
    LET ro == Resolve(f, old, FALSE)
        rn == Resolve(f, new, FALSE)
    IN  IF ~ro.ok \/ ro.path \notin DOMAIN f THEN FsFail(f)
        ELSE IF f[ro.path].kind = "dir" THEN FsFail(f)
        ELSE IF ~rn.ok \/ rn.path \in DOMAIN f THEN FsFail(f)
        ELSE FsOk(Put(f, rn.path, f[ro.path]), {rn.path})

\* Tar headers.  type is the Typeflag class: "dir", "reg", "symlink", "link",
\* "meta" (pax / GNU long name headers) or "other".
Entry(type, name, linkname) == [type |-> type, name |-> name, linkname |-> linkname]

Rel(comps) == Name(FALSE, comps)

\* The headers archives are built from.
EntryAlphabet ==
    { Entry("dir", Rel(<<"package", "a">>), NoName),
      Entry("reg", Rel(<<"package", "package.json">>), NoName),
      Entry("reg", Rel(<<"package", "a", "x">>), NoName),
      Entry("reg", Rel(<<"package", "h">>), NoName),
      Entry("reg", Rel(<<"package.json">>), NoName),
      Entry("reg", Rel(<<"..", "evil">>), NoName),
      Entry("reg", Rel(<<"package", "a", "..", "h">>), NoName),
      Entry("symlink", Rel(<<"package", "a">>), Rel(<<"..", "..">>)),
      Entry("symlink", Rel(<<"package", "a">>), Rel(<<"lib">>)),
      Entry("symlink", Rel(<<"package", "a">>), Name(TRUE, <<"etc">>)),
      Entry("symlink", Rel(<<"package", "package.json">>), Rel(<<"a", "x">>)),
      Entry("link", Rel(<<"package", "h">>), Rel(<<"package", "a", "victim">>)),
      Entry("link", Rel(<<"package", "h">>), Rel(<<"other", "x">>)),
      Entry("meta", Rel(<<"PaxHeader">>), NoName) }

Archives == UNION { [1..n -> EntryAlphabet] : n \in 0..MaxEntries }

\* isMetadataHeader, lines 934-943.
isMetadataHeader(hdr) == hdr.type = "meta"

\* The entries both passes look at (lines 686-692, 808-813).
Considered(hdr) == hdr.name # NoName /\ ~isMetadataHeader(hdr)

\* determineTarRoot, lines 800-831: the first entry (in archive order) whose
\* name normalizeTarPath refuses ends the pass with an error.
FirstPassError(arch) ==
    \E i \in 1..Len(arch) :
        Considered(arch[i]) /\ normalizeTarPath(arch[i].name).err # None

\* determineTarRoot, lines 828-830: normalized names with base "package.json".
PkgJSONPaths(arch) ==
    { normalizeTarPath(arch[i].name).path : i \in
        { j \in 1..Len(arch) :
            /\ Considered(arch[j])
            /\ normalizeTarPath(arch[j].name).err = None
            /\ normalizeTarPath(arch[j].name).path # <<>>
            /\ Last(normalizeTarPath(arch[j].name).path) = "package.json" } }

\* depth, lines 927-932.
depth(p) == Len(p)

\* determineTarRoot, lines 833-842: the directory of a package.json of least
\* depth (sort.Slice is not stable: any of the shallowest may come first).
TarRoots(arch) ==
    { Butlast(p) : p \in
        { q \in PkgJSONPaths(arch) :
            \A o \in PkgJSONPaths(arch) : depth(q) <= depth(o) } }

AbsDest == StagingDir \o <<"package">>

XResult(err, f, made, pkg) == [err |-> err, fs |-> f, made |-> made, pkg |-> pkg]

\* extractTarReadSeeker, lines 717-781: the switch on the type of one entry
\* whose joined path is target.
ExtractTyped(f, hdr, trimmed, target, root, idx) ==
    CASE hdr.type = "dir" ->
            LET m == MkdirAll(f, target) IN
            XResult(IF m.ok THEN None ELSE "mkdir", m.fs, m.made, FALSE)
      [] hdr.type = "reg" ->
            LET m == MkdirAll(f, Butlast(target))
                w == WriteFile(m.fs, target, idx)
            IN  IF ~m.ok THEN XResult("mkparent", m.fs, m.made, FALSE)
                ELSE IF ~w.ok THEN XResult("create file", m.fs, m.made, FALSE)
                ELSE XResult(None, w.fs, m.made \cup w.made,
                             trimmed = <<"package.json">>)
      [] hdr.type = "symlink" ->
            LET m == MkdirAll(f, Butlast(target))
                s == Symlink(Remove(m.fs, target), hdr.linkname, target)
            IN  IF hdr.linkname.abs
                THEN XResult("absolute symlink rejected", f, {}, FALSE)
                ELSE IF ~m.ok THEN XResult("mkparent", m.fs, m.made, FALSE)
                ELSE IF ~s.ok
                THEN XResult("symlink", Remove(m.fs, target), m.made, FALSE)
                ELSE XResult(None, s.fs, m.made \cup s.made, FALSE)
      [] hdr.type = "link" ->
            LET ln == normalizeTarPath(hdr.linkname)
                lt == trimTarPath(ln.path, root)
                lj == secureJoin(AbsDest, Rel(lt.path))
                m == MkdirAll(f, Butlast(target))
                l == Link(Remove(m.fs, target), lj.path, target)
            IN  IF ln.err # None
                THEN XResult("hardlink linkname", f, {}, FALSE)
                ELSE IF ~lt.ok \/ lt.path = <<>>
                THEN XResult("hardlink target outside package root", f, {}, FALSE)
                ELSE IF lj.err # None
                THEN XResult("hardlink target", f, {}, FALSE)
                ELSE IF ~m.ok THEN XResult("mkparent", m.fs, m.made, FALSE)
                ELSE IF ~l.ok
                THEN XResult("hardlink", Remove(m.fs, target), m.made, FALSE)
                ELSE XResult(None, l.fs, m.made \cup l.made, FALSE)
      [] OTHER -> XResult(None, f, {}, FALSE)

\* extractTarReadSeeker, lines 686-715: what is done with one header before
\* the switch on its type.
ExtractOne(f, hdr, root, idx) ==
    LET norm == normalizeTarPath(hdr.name)
        trim == trimTarPath(norm.path, root)
        join == secureJoin(AbsDest, Rel(trim.path))
    IN  IF ~Considered(hdr) THEN XResult(None, f, {}, FALSE)
        ELSE IF norm.err # None THEN XResult(norm.err, f, {}, FALSE)
        ELSE IF norm.path = <<>> THEN XResult(None, f, {}, FALSE)
        ELSE IF ~trim.ok \/ trim.path = <<>> THEN XResult(None, f, {}, FALSE)
        ELSE IF join.err # None THEN XResult(join.err, f, {}, FALSE)
        ELSE ExtractTyped(f, hdr, trim.path, join.path, root, idx)

nonExtractVars == <<cacheVars, ctxDone, installVars, statusVars, sideVars>>

\* extractTarReadSeeker, lines 659-673: the first pass, then MkdirAll of
\* <destDir>/package.
ExtractBegin ==
    /\ xpc = "start"
    /\ IF FirstPassError(archive) \/ PkgJSONPaths(archive) = {}
       THEN /\ xpc' = "failed"
            /\ xerr' = IF FirstPassError(archive) THEN "tar entry"
                       ELSE "package.json not found in archive"
            /\ UNCHANGED <<rootDir, fs, touched>>
       ELSE /\ \E root \in TarRoots(archive) : rootDir' = root
            /\ LET m == MkdirAll(fs, AbsDest) IN
               /\ fs' = m.fs
               /\ touched' = touched \cup m.made
               /\ xpc' = IF m.ok THEN "entries" ELSE "failed"
               /\ xerr' = IF m.ok THEN None ELSE "mkdir dest"
    /\ UNCHANGED <<archive, xidx, extractedPkgJSON, nonExtractVars>>

\* extractTarReadSeeker, lines 678-782: one iteration of the second pass.
ExtractEntry ==
    /\ xpc = "entries"
    /\ xidx <= Len(archive)
    /\ LET r == ExtractOne(fs, archive[xidx], rootDir, xidx) IN
       /\ fs' = r.fs
       /\ touched' = touched \cup r.made
       /\ extractedPkgJSON' = (extractedPkgJSON \/ r.pkg)
       /\ xerr' = r.err
       /\ xpc' = IF r.err = None THEN "entries" ELSE "failed"
    /\ xidx' = xidx + 1
    /\ UNCHANGED <<archive, rootDir, nonExtractVars>>

\* extractTarReadSeeker, lines 680-682 and 784-788: the end of the stream.
ExtractEnd ==
    /\ xpc = "entries"
    /\ xidx > Len(archive)
    /\ xpc' = IF extractedPkgJSON THEN "done" ELSE "failed"
    /\ xerr' = IF extractedPkgJSON THEN None
               ELSE "package.json not found in archive"
    /\ UNCHANGED <<archive, xidx, rootDir, fs, extractedPkgJSON, touched,
                   nonExtractVars>>

(***************************************************************************)
(* Part 3: one install run (package install, package config, main).        *)
(***************************************************************************)

\* Capacity of the channel ResolveDependenciesDeep returns.
ChanCap == 16

\* Failures the environment may inject in one run (registry, filesystem,
\* scripts, signal).
MaxFaults == 2

\* The two workspaces config.FindSubMods finds, in its order, and the
\* directories a task of install.Run can work in: a workspace or the
\* "package" directory of a cache entry.
W1 == <<"workspace", "w1", 0>>

W2 == <<"workspace", "w2", 0>>

Workspaces == <<W1, W2>>

Mods == {W1, W2} \cup Keys

Scripts == {"preinstall", "install", "postinstall"}

BinNames == {"cli"}

\* Versions the registry publishes of a package.
Published(pkg) == IF pkg = "a" THEN {1, 2} ELSE {1}

\* One entry of a manifest's dependency maps: the key it is listed under,
\* the package and the versions its constraint admits, and whether it is
\* listed in optionalDependencies.
Dep(key, pkg, range, opt) ==
    [key |-> key, pkg |-> pkg, range |-> range, optional |-> opt]

\* The package.json of a directory.  The workspaces depend on a; w1 also
\* lists b under the alias o in optionalDependencies.  Cached packages have
\* no dependencies, ship one executable and a has an install script.
Manifest(c, d) ==
    IF d = W1 THEN
        [name |-> "app", version |-> 1,
         deps |-> {Dep("a", "a", {1, 2}, FALSE), Dep("o", "b", {1}, TRUE)},
         scripts |-> {"preinstall", "install", "postinstall"},
         bins |-> {}]
    ELSE IF d = W2 THEN
        [name |-> c.w2Name, version |-> 1,
         deps |-> {Dep("a", "a", c.w2Range, FALSE)},
         scripts |-> {"preinstall", "install"},
         bins |-> {}]
    ELSE
        [name |-> d[2], version |-> d[3],
         deps |-> {},
         scripts |-> IF d[2] = "a" THEN {"install"} ELSE {},
         bins |-> BinNames]

\* The runGo goroutines a run can start: (workspace, manifest key).
Producers == { <<W1, "a">>, <<W1, "o">>, <<W2, "a">> }

DepOf(c, p) == CHOOSE e \in Manifest(c, p[1]).deps : e.key = p[2]

Configs ==
    [ignoreScripts : BOOLEAN, optional : BOOLEAN,
     w2Name : {"app", "lib"}, w2Range : {{1}, {1, 2}}]

NoDep == [name |-> None, loc |-> <<>>]

NoLink == <<>>

NoExit == [code |-> -1, cause |-> NoCause]

NoSnapshot ==
    [taken |-> FALSE,
     links |-> [p \in Producers |-> NoLink],
     binLinks |-> [b \in {W1, W2} \X BinNames |-> NoLink],
     cache |-> {}]

\* Concurrent callers of runLifecycleScript in the lifecycle specification.
NumLifecycleCallers == 3

LifecycleCallers == 1..NumLifecycleCallers

\* The (directory, script) pairs those callers ask for.
LifecycleTargets == {W1, <<"npm", "a", 1>>} \X {"preinstall", "install"}

\* The process-wide state a fresh process starts with.
FreshProcess ==
    /\ spawned = 0
    /\ tpc = [d \in Mods |-> "idle"]
    /\ tscript = [d \in Mods |-> None]
    /\ tdep = [d \in Mods |-> NoDep]
    /\ ppc = [p \in Producers |-> "idle"]
    /\ pver = [p \in Producers |-> 0]
    /\ ch = [d \in Mods |-> <<>>]
    /\ lifecycleScriptsSeen = {}
    /\ installedPackages = {}
    /\ scriptState = [x \in Mods \X Scripts |-> "none"]
    /\ scriptRuns = [x \in Mods \X Scripts |-> 0]
    /\ fetched = [k \in Keys |-> 0]
    /\ cancelCalls = <<>>
    /\ failed = {}
    /\ exit = NoExit

InstallIdle ==
    /\ cfg = [ignoreScripts |-> FALSE, optional |-> FALSE,
              w2Name |-> "lib", w2Range |-> {1}]
    /\ run = 1
    /\ FreshProcess
    /\ faults = 0
    /\ links = [p \in Producers |-> NoLink]
    /\ binLinks = [b \in {W1, W2} \X BinNames |-> NoLink]
    /\ firstRun = NoSnapshot
    /\ lpc = [c \in LifecycleCallers |-> "done"]
    /\ ltarget = [c \in LifecycleCallers |-> <<W1, "install">>]

\* Variables of the cache and of the extractor no step of the install run
\* changes (the run uses the cache's locks and final directories).
installFrame ==
    <<keyOf, expSum, cpc, cacheLock, cacheLocks, tmpFiles, staging, gotSum,
      result, tarballCache, downloads, extractVars, cfg, run, firstRun,
      lpc, ltarget, started, statuses, errorShown, clearPending, upc, uarg,
      uret, sideVars>>

\* A cancel function that lets the latest caller replace the cause.
LastCauseWins(done, e) == e

\* context.WithCancelCause (main line 16): the first call of the cancel
\* function fixes the cause, later calls change nothing.
Cancelled(done, e) == IF done = NoCause THEN e ELSE done

\* meta.CancelCause(err), the cancel function main stored (main line 17).
CancelCause(e) ==
    /\ ctxDone' = Cancelled(ctxDone, e)
    /\ cancelCalls' = Append(cancelCalls, e)

\* "if optional { logger.Printf(...) } else { meta.CancelCause(...) }".
LogOrCancel(opt, e) ==
    /\ failed' = failed \cup {e}
    /\ IF opt THEN UNCHANGED <<ctxDone, cancelCalls>> ELSE CancelCause(e)

\* The environment lets an operation fail while the budget lasts.
CanFail == faults < MaxFaults

\* registry.PackageIdentifierFromPath: a directory below the cache root
\* names its registry, package and version; another directory does not.
PackageIdentifierFromPath(d) ==
    IF d \in Keys
    THEN [ok |-> TRUE, source |-> d[1], name |-> d[2], version |-> d[3]]
    ELSE [ok |-> FALSE, source |-> None, name |-> None, version |-> 0]

\* lifecycleScriptKey: "<source>:<name>@<version>#<script>", the source being
\* "workspace" for a directory outside the cache.
lifecycleScriptKey(c, d, scriptName) ==
    LET id == PackageIdentifierFromPath(d)
        source == IF id.ok THEN id.source ELSE "workspace"
    IN  <<source, Manifest(c, d).name, Manifest(c, d).version, scriptName>>

\* Where a task goes when a lifecycle script has returned nil.
AfterScript(scriptName) ==
    IF scriptName = "preinstall" THEN "resolve"
    ELSE IF scriptName = "install" THEN "postinstall"
    ELSE "done"

\* A task that runs preinstall whatever the flag says.
TaskEntryIgnoresFlag(c) == "preinstall"

\* First position of a task (Run lines 84-95).
TaskEntry(c) == IF c.ignoreScripts THEN "resolve" ELSE "preinstall"

\* Run lines 76-84 for the top-level call: the loop over the mods checks the
\* context and starts the next workspace's task.
SpawnMod ==
    /\ exit = NoExit
    /\ spawned < Len(Workspaces)
    /\ IF ctxDone # NoCause
       THEN /\ spawned' = Len(Workspaces)
            /\ UNCHANGED tpc
       ELSE /\ spawned' = spawned + 1
            /\ tpc' = [tpc EXCEPT ![Workspaces[spawned + 1]] = TaskEntry(cfg)]
    /\ UNCHANGED <<installFrame, program, keyHolder, finalDir, ctxDone, tscript, tdep,
                   ppc, pver, ch, links, binLinks, lifecycleScriptsSeen,
                   installedPackages, scriptState, scriptRuns, fetched,
                   cancelCalls, failed, exit, faults>>

\* A runner that finds every script name in every manifest.
ScriptAlwaysFound(c, d, scriptName) == TRUE

\* scriptsrunner.Run lines 34-46: the script is found when the manifest has
\* a scripts map and the map has the name; otherwise ErrScriptNotFound.
ScriptFound(c, d, scriptName) == scriptName \in Manifest(c, d).scripts

\* runLifecycleScript lines 213-231 with shouldRunLifecycleScript: the key is
\* claimed first; a claimed key or a script the manifest lacks returns nil,
\* otherwise the script body starts.
RunLifecycleScript(d) ==
    /\ exit = NoExit
    /\ tpc[d] \in Scripts
    /\ LET scriptName == tpc[d]
           key == lifecycleScriptKey(cfg, d, scriptName)
       IN  /\ lifecycleScriptsSeen' = lifecycleScriptsSeen \cup {key}
           /\ IF key \in lifecycleScriptsSeen
                 \/ ~ScriptFound(cfg, d, scriptName)
              THEN /\ tpc' = [tpc EXCEPT ![d] = AfterScript(scriptName)]
                   /\ UNCHANGED <<tscript, scriptState, scriptRuns>>
              ELSE /\ tpc' = [tpc EXCEPT ![d] = "script"]
                   /\ tscript' = [tscript EXCEPT ![d] = scriptName]
                   /\ scriptState' = [scriptState EXCEPT ![<<d, scriptName>>] = "running"]
                   /\ scriptRuns' = [scriptRuns EXCEPT ![<<d, scriptName>>] = @ + 1]
    /\ UNCHANGED <<installFrame, program, keyHolder, finalDir, ctxDone, spawned, tdep,
                   ppc, pver, ch, links, binLinks, installedPackages, fetched,
                   cancelCalls, failed, exit, faults>>

\* scriptsrunner.Run returns (runLifecycleScript lines 231-256), and Run
\* lines 86-95 / 147-157 handle an error: log or cancel, then return.
ScriptEnd(d) ==
    /\ exit = NoExit
    /\ tpc[d] = "script"
    /\ \/ /\ scriptState' = [scriptState EXCEPT ![<<d, tscript[d]>>] = "ok"]
          /\ tpc' = [tpc EXCEPT ![d] = AfterScript(tscript[d])]
          /\ UNCHANGED <<ctxDone, cancelCalls, failed, faults>>
       \/ /\ CanFail
          /\ faults' = faults + 1
          /\ scriptState' = [scriptState EXCEPT ![<<d, tscript[d]>>] = "failed"]
          /\ tpc' = [tpc EXCEPT ![d] = "done"]
          /\ LogOrCancel(cfg.optional, <<"script failed", d[2], tscript[d]>>)
    /\ tscript' = [tscript EXCEPT ![d] = None]
    /\ UNCHANGED <<installFrame, program, keyHolder, finalDir, spawned, tdep, ppc, pver,
                   ch, links, binLinks, lifecycleScriptsSeen,
                   installedPackages, scriptRuns, fetched, exit>>

\* ResolveDependenciesDeep lines 271-301: the entries whose runGo goroutine
\* is started: dependencies always, optionalDependencies when asked for.
Started(c, d) ==
    { p \in Producers : p[1] = d /\ (DepOf(c, p).optional => c.optional) }

\* The channel of d is closed: every runGo of d has returned (lines 295-298).
Closed(d) == \A p \in Producers : p[1] = d => ppc[p] \in {"idle", "done"}

Min(S) == CHOOSE x \in S : \A y \in S : x <= y

Max(S) == CHOOSE x \in S : \A y \in S : x >= y

\* os.ReadDir of <cache>/npm/<pkg> (CacheHas line 110): the version
\* directories that exist and the staging directories ".extract-*" that
\* CachePut calls for the package have made there.
ReadDir(pkg) ==
    { <<"version", k[3]>> : k \in { j \in Keys : j[2] = pkg /\ finalDir[j] # NoDir } }
        \cup
    { <<".extract", c>> : c \in { b \in Callers : keyOf[b][2] = pkg /\ staging[b] # NoDir } }

\* A parser that takes every directory name for a version.
NewVersionAcceptsAll(entry) == TRUE

\* semver.NewVersion(entry.Name()) (CacheHas lines 115-118): the name of a
\* version directory parses, ".extract-*" does not.
NewVersion(entry) == entry[1] = "version"

\* CacheHas: the versions of pkg in the cache that satisfy the constraint;
\* os.ReadDir lists them sorted by name and the first match is returned.
CacheHas(pkg, range) ==
    LET hits == { e \in ReadDir(pkg) : NewVersion(e) /\ e[2] \in range }
    IN  IF hits = {} THEN 0 ELSE Min({ e[2] : e \in hits })

\* Npm_Resolve lines 108-149: the highest published version that satisfies
\* the constraint.
Npm_Resolve(pkg, range) == Max(range \cap Published(pkg))

\* A runGo that emits the name of the resolved package.
ResolvedUnderPackageName(c, p) ==
    [name |-> DepOf(c, p).pkg,
     loc |-> PackagePath(<<"npm", DepOf(c, p).pkg, pver[p]>>)]

\* runGo lines 235 and 265: ResolvedDependency{constPackageName,
\* cachedLocation}: the manifest key and the cache directory of the package
\* the specifier names (for "npm:<alias>@<range>" the aliased package).
Resolved(c, p) ==
    [name |-> p[2], loc |-> PackagePath(<<"npm", DepOf(c, p).pkg, pver[p]>>)]

\* Run line 104: the task calls ResolveDependenciesDeep, which makes the
\* channel and starts one runGo per entry.
ResolveDependenciesDeep(d) ==
    /\ exit = NoExit
    /\ tpc[d] = "resolve"
    /\ tpc' = [tpc EXCEPT ![d] = "recv"]
    /\ ppc' = [p \in Producers |->
                  IF p \in Started(cfg, d) THEN "runGo" ELSE ppc[p]]
    /\ ch' = [ch EXCEPT ![d] = <<>>]
    /\ UNCHANGED <<installFrame, program, keyHolder, finalDir, ctxDone, spawned,
                   tscript, tdep, pver, links, binLinks, lifecycleScriptsSeen,
                   installedPackages, scriptState, scriptRuns, fetched,
                   cancelCalls, failed, exit, faults>>

\* runGo lines 233-249: CacheHas, and on a miss Npm_Resolve.  A request made
\* with a cancelled context fails with context.Canceled, which runGo drops.
RunGoResolve(p) ==
    /\ exit = NoExit
    /\ ppc[p] = "runGo"
    /\ LET e == DepOf(cfg, p)
           hit == CacheHas(e.pkg, e.range)
       IN  IF hit # 0
           THEN /\ pver' = [pver EXCEPT ![p] = hit]
                /\ ppc' = [ppc EXCEPT ![p] = "send"]
                /\ UNCHANGED <<ctxDone, cancelCalls, failed, faults>>
           ELSE IF ctxDone # NoCause
           THEN /\ ppc' = [ppc EXCEPT ![p] = "done"]
                /\ UNCHANGED <<pver, ctxDone, cancelCalls, failed, faults>>
           ELSE \/ /\ pver' = [pver EXCEPT ![p] = Npm_Resolve(e.pkg, e.range)]
                   /\ ppc' = [ppc EXCEPT ![p] = "put"]
                   /\ UNCHANGED <<ctxDone, cancelCalls, failed, faults>>
                \/ /\ CanFail
                   /\ faults' = faults + 1
                   /\ ppc' = [ppc EXCEPT ![p] = "done"]
                   /\ LogOrCancel(e.optional, <<"failed to resolve", p[1][2], p[2]>>)
                   /\ UNCHANGED pver
    /\ UNCHANGED <<installFrame, program, keyHolder, finalDir, spawned, tpc, tscript,
                   tdep, ch, links, binLinks, lifecycleScriptsSeen,
                   installedPackages, scriptState, scriptRuns, fetched, exit>>

PutKey(c, p) == <<"npm", DepOf(c, p).pkg, pver[p]>>

\* CachePut lines 127-143 called from runGo line 251: lockCache, then
\* os.Stat of the final directory; an existing entry is returned at once.
PutLock(p) ==
    /\ exit = NoExit
    /\ ppc[p] = "put"
    /\ cacheLock = {}
    /\ KeyMutexFree(PutKey(cfg, p))
    /\ IF EntryExists(PutKey(cfg, p))
       THEN /\ ppc' = [ppc EXCEPT ![p] = "send"]
            /\ UNCHANGED <<keyHolder, fetched>>
       ELSE /\ ppc' = [ppc EXCEPT ![p] = "fetch"]
            /\ keyHolder' = [keyHolder EXCEPT ![PutKey(cfg, p)] = {p}]
            /\ fetched' = [fetched EXCEPT ![PutKey(cfg, p)] = @ + 1]
    /\ UNCHANGED <<installFrame, program, finalDir, ctxDone, spawned, tpc, tscript,
                   tdep, pver, ch, links, binLinks, lifecycleScriptsSeen,
                   installedPackages, scriptState, scriptRuns, cancelCalls, failed,
                   exit, faults>>

\* CachePut lines 145-265 to its return: download, checksum, extraction and
\* rename succeed and publish the entry, or the call fails (with
\* context.Canceled when the context is cancelled); the key's lock is
\* released either way.
PutFetch(p) ==
    /\ exit = NoExit
    /\ ppc[p] = "fetch"
    /\ keyHolder' = [keyHolder EXCEPT ![PutKey(cfg, p)] = {}]
    /\ \/ /\ finalDir' = [finalDir EXCEPT ![PutKey(cfg, p)] =
                 [content |-> "genuine", state |-> "complete"]]
          /\ ppc' = [ppc EXCEPT ![p] = "send"]
          /\ UNCHANGED faults
       \/ /\ ctxDone # NoCause
          /\ ppc' = [ppc EXCEPT ![p] = "done"]
          /\ UNCHANGED <<finalDir, faults>>
       \/ /\ ctxDone = NoCause
          /\ CanFail
          /\ faults' = faults + 1
          /\ ppc' = [ppc EXCEPT ![p] = "putErr"]
          /\ UNCHANGED finalDir
    /\ UNCHANGED <<installFrame, program, ctxDone, spawned, tpc, tscript, tdep, pver,
                   ch, links, binLinks, lifecycleScriptsSeen,
                   installedPackages, scriptState, scriptRuns, fetched,
                   cancelCalls, failed, exit>>

\* runGo lines 252-262: CachePut returned an error that is not
\* context.Canceled.
RunGoPutFailed(p) ==
    /\ exit = NoExit
    /\ ppc[p] = "putErr"
    /\ ppc' = [ppc EXCEPT ![p] = "done"]
    /\ LogOrCancel(DepOf(cfg, p).optional, <<"failed to cache", p[1][2], p[2]>>)
    /\ UNCHANGED <<installFrame, program, keyHolder, finalDir, spawned, tpc, tscript,
                   tdep, pver, ch, links, binLinks, lifecycleScriptsSeen,
                   installedPackages, scriptState, scriptRuns, fetched, exit,
                   faults>>

\* runGo lines 234-238 and 264-267: select between the send on the buffered
\* channel and ctx.Done().
Send(p) ==
    /\ exit = NoExit
    /\ ppc[p] = "send"
    /\ ppc' = [ppc EXCEPT ![p] = "done"]
    /\ \/ /\ Len(ch[p[1]]) < ChanCap
          /\ ch' = [ch EXCEPT ![p[1]] = Append(@, Resolved(cfg, p))]
       \/ /\ ctxDone # NoCause
          /\ UNCHANGED ch
    /\ UNCHANGED <<installFrame, program, keyHolder, finalDir, ctxDone, spawned, tpc,
                   tscript, tdep, pver, links, binLinks, lifecycleScriptsSeen,
                   installedPackages, scriptState, scriptRuns, fetched,
                   cancelCalls, failed, exit, faults>>

\* The cache entry whose "package" directory loc is.
KeyOfLoc(loc) == <<loc[2], loc[3], loc[4]>>

\* Run line 104, the range over the channel: the next resolved dependency
\* is received, or the channel is closed and drained and the loop ends
\* (Run lines 147-148).
Recv(d) ==
    /\ exit = NoExit
    /\ tpc[d] = "recv"
    /\ IF ch[d] # <<>>
       THEN /\ tdep' = [tdep EXCEPT ![d] = Head(ch[d])]
            /\ ch' = [ch EXCEPT ![d] = Tail(@)]
            /\ tpc' = [tpc EXCEPT ![d] = "link"]
       ELSE /\ Closed(d)
            /\ tpc' = [tpc EXCEPT ![d] =
                          IF cfg.ignoreScripts THEN "done" ELSE "install"]
            /\ UNCHANGED <<tdep, ch>>
    /\ UNCHANGED <<installFrame, program, keyHolder, finalDir, ctxDone, spawned,
                   tscript, ppc, pver, links, binLinks, lifecycleScriptsSeen,
                   installedPackages, scriptState, scriptRuns, fetched,
                   cancelCalls, failed, exit, faults>>

\* Run lines 105-113 with link (link_unix.go): node_modules/<name> becomes a
\* symlink to the cached location; on an error the task logs or cancels and
\* returns.
link(d) ==
    /\ exit = NoExit
    /\ tpc[d] = "link"
    /\ \/ /\ links' = [links EXCEPT ![<<d, tdep[d].name>>] = tdep[d].loc]
          /\ tpc' = [tpc EXCEPT ![d] = "process"]
          /\ UNCHANGED <<ctxDone, cancelCalls, failed, faults>>
       \/ /\ CanFail
          /\ faults' = faults + 1
          /\ tpc' = [tpc EXCEPT ![d] = "done"]
          /\ LogOrCancel(cfg.optional, <<"failed to link", d[2], tdep[d].name>>)
          /\ UNCHANGED links
    /\ UNCHANGED <<installFrame, program, keyHolder, finalDir, spawned, tscript, tdep,
                   ppc, pver, ch, binLinks, lifecycleScriptsSeen,
                   installedPackages, scriptState, scriptRuns, fetched, exit>>

\* Run lines 114-117 with shouldProcessPackage: the first task to ask for a
\* cached location claims it and calls Run on it, whose loop checks the
\* context and starts the task of the package; the others go on at once.
Process(d) ==
    /\ exit = NoExit
    /\ tpc[d] = "process"
    /\ LET loc == tdep[d].loc
           child == KeyOfLoc(loc)
       IN  /\ installedPackages' = installedPackages \cup {loc}
           /\ IF loc \in installedPackages \/ ctxDone # NoCause
              THEN tpc' = [tpc EXCEPT ![d] = "bins"]
              ELSE tpc' = [tpc EXCEPT ![d] = "wait", ![child] = TaskEntry(cfg)]
    /\ UNCHANGED <<installFrame, program, keyHolder, finalDir, ctxDone, spawned,
                   tscript, tdep, ppc, pver, ch, links, binLinks,
                   lifecycleScriptsSeen, scriptState, scriptRuns, fetched,
                   cancelCalls, failed, exit, faults>>

\* Run line 160 of the recursive call: wg.Wait() returns when the task of
\* the package has returned.
Wait(d) ==
    /\ exit = NoExit
    /\ tpc[d] = "wait"
    /\ tpc[KeyOfLoc(tdep[d].loc)] = "done"
    /\ tpc' = [tpc EXCEPT ![d] = "bins"]
    /\ UNCHANGED <<installFrame, program, keyHolder, finalDir, ctxDone, spawned,
                   tscript, tdep, ppc, pver, ch, links, binLinks,
                   lifecycleScriptsSeen, installedPackages, scriptState,
                   scriptRuns, fetched, cancelCalls, failed, exit, faults>>

\* The .bin links of d after every executable of the package at loc has
\* been linked (Run lines 133-143).
WithBins(c, d, loc) ==
    [b \in DOMAIN binLinks |->
        IF b[1] = d /\ b[2] \in Manifest(c, KeyOfLoc(loc)).bins
        THEN loc \o <<b[2]>>
        ELSE binLinks[b]]

\* Run lines 118-145: the context check, config.ResolveBins and the link of
\* every executable into node_modules/.bin; on an error the task logs or
\* cancels and returns.
Bins(d) ==
    /\ exit = NoExit
    /\ tpc[d] = "bins"
    /\ IF ctxDone # NoCause
       THEN /\ tpc' = [tpc EXCEPT ![d] = "done"]
            /\ UNCHANGED <<binLinks, ctxDone, cancelCalls, failed, faults>>
       ELSE \/ /\ binLinks' = WithBins(cfg, d, tdep[d].loc)
               /\ tpc' = [tpc EXCEPT ![d] = "recv"]
               /\ UNCHANGED <<ctxDone, cancelCalls, failed, faults>>
            \/ /\ CanFail
               /\ faults' = faults + 1
               /\ tpc' = [tpc EXCEPT ![d] = "done"]
               /\ LogOrCancel(cfg.optional,
                              <<"failed to resolve bins", d[2], tdep[d].name>>)
               /\ UNCHANGED binLinks
    /\ UNCHANGED <<installFrame, program, keyHolder, finalDir, spawned, tscript, tdep,
                   ppc, pver, ch, links, lifecycleScriptsSeen,
                   installedPackages, scriptState, scriptRuns, fetched, exit>>

\* main lines 19-24: an OS signal arrives and the handler cancels the
\* context with "received <signal>" as cause.
Signal ==
    /\ exit = NoExit
    /\ CanFail
    /\ faults' = faults + 1
    /\ CancelCause(<<"received", "interrupt", "">>)
    /\ UNCHANGED failed
    /\ UNCHANGED <<installFrame, program, keyHolder, finalDir, spawned, tpc, tscript,
                   tdep, ppc, pver, ch, links, binLinks, lifecycleScriptsSeen,
                   installedPackages, scriptState, scriptRuns, fetched, exit>>

\* The top-level Run has returned: its loop is over and wg.Wait() has seen
\* every workspace task return.
RunReturned ==
    /\ spawned = Len(Workspaces)
    /\ \A i \in 1..Len(Workspaces) : tpc[Workspaces[i]] \in {"idle", "done"}

\* The end of the process: the deferred statusui.Stop() of the install
\* command (and main line 29) ends the program, and main lines 28-37 make
\* the process exit with status 1 and the cause when the context is
\* cancelled, with status 0 otherwise.
Exit ==
    /\ program' = 0
    /\ exit' = [code |-> IF ctxDone # NoCause THEN 1 ELSE 0, cause |-> ctxDone]

\* main lines 26-37: cmd.Execute returns when the top-level Run has returned.
MainExit ==
    /\ exit = NoExit
    /\ RunReturned
    /\ Exit
    /\ UNCHANGED <<installFrame, keyHolder, finalDir, ctxDone, spawned, tpc,
                   tscript, tdep, ppc, pver, ch, links, binLinks,
                   lifecycleScriptsSeen, installedPackages, scriptState,
                   scriptRuns, fetched, cancelCalls, failed, faults>>

\* main lines 26-37 for a command whose CachePut calls have all returned.
ExecuteReturned ==
    /\ exit = NoExit
    /\ \A c \in Callers : cpc[c] = "done"
    /\ Exit
    /\ UNCHANGED <<cacheVars, ctxDone, extractVars, cfg, run, spawned, tpc,
                   tscript, tdep, ppc, pver, ch, links, binLinks,
                   lifecycleScriptsSeen, installedPackages, scriptState,
                   scriptRuns, fetched, cancelCalls, failed, lpc, ltarget,
                   faults, firstRun, started, statuses, errorShown,
                   clearPending, upc, uarg, uret, sideVars>>

\* What the second process finds on disk: the links and the cache entries.
Snapshot ==
    [taken |-> TRUE, links |-> links, binLinks |-> binLinks,
     cache |-> { k \in Keys : finalDir[k] # NoDir }]

\* The install command is run again after a run that ended with status 0:
\* a new process starts with fresh process-wide state and an uncancelled
\* context over the filesystem the first run left.
SecondRun ==
    /\ run = 1
    /\ exit.code = 0
    /\ run' = 2
    /\ firstRun' = Snapshot
    /\ spawned' = 0
    /\ tpc' = [d \in Mods |-> "idle"]
    /\ tscript' = [d \in Mods |-> None]
    /\ tdep' = [d \in Mods |-> NoDep]
    /\ ppc' = [p \in Producers |-> "idle"]
    /\ pver' = [p \in Producers |-> 0]
    /\ ch' = [d \in Mods |-> <<>>]
    /\ lifecycleScriptsSeen' = {}
    /\ installedPackages' = {}
    /\ scriptState' = [x \in Mods \X Scripts |-> "none"]
    /\ scriptRuns' = [x \in Mods \X Scripts |-> 0]
    /\ fetched' = [k \in Keys |-> 0]
    /\ cancelCalls' = <<>>
    /\ failed' = {}
    /\ exit' = NoExit
    /\ program' = started + 1
    /\ started' = started + 1
    /\ statuses' = initialModel
    /\ UNCHANGED <<keyOf, expSum, cpc, cacheLock, cacheLocks, tmpFiles,
                   staging, gotSum, result, tarballCache, downloads,
                   extractVars, cfg, lpc, ltarget, keyHolder, finalDir,
                   ctxDone, links, binLinks, faults, errorShown, clearPending,
                   upc, uarg, uret, sideVars>>

\* Variables the callers of runLifecycleScript leave alone.
lifecycleFrame ==
    <<cacheVars, ctxDone, extractVars, cfg, run, spawned, tpc, tscript, tdep,
      ppc, pver, ch, links, binLinks, installedPackages, fetched, cancelCalls,
      failed, ltarget, exit, faults, firstRun, statusVars, sideVars>>

LifecycleKey(c) == lifecycleScriptKey(cfg, ltarget[c][1], ltarget[c][2])

\* A re-check under the write lock that never finds the key.
NeverSeen(key) == FALSE

\* shouldRunLifecycleScript lines 33-37: the re-check of the key under
\* lifecycleScriptsMu.Lock().
SeenUnderLock(key) == key \in lifecycleScriptsSeen

\* shouldRunLifecycleScript lines 27-32: the probe under RLock; a key that
\* is present makes runLifecycleScript return nil.
LifecycleProbe(c) ==
    /\ lpc[c] = "call"
    /\ lpc' = [lpc EXCEPT ![c] =
                  IF LifecycleKey(c) \in lifecycleScriptsSeen
                  THEN "done" ELSE "lock"]
    /\ UNCHANGED <<lifecycleFrame, lifecycleScriptsSeen, scriptState, scriptRuns>>

\* shouldRunLifecycleScript lines 33-39: under the write lock the key is
\* re-checked and, when absent, inserted.
LifecycleClaim(c) ==
    /\ lpc[c] = "lock"
    /\ IF SeenUnderLock(LifecycleKey(c))
       THEN /\ lpc' = [lpc EXCEPT ![c] = "done"]
            /\ UNCHANGED lifecycleScriptsSeen
       ELSE /\ lpc' = [lpc EXCEPT ![c] = "run"]
            /\ lifecycleScriptsSeen' = lifecycleScriptsSeen \cup {LifecycleKey(c)}
    /\ UNCHANGED <<lifecycleFrame, scriptState, scriptRuns>>

\* runLifecycleScript lines 221-238: scriptsrunner.Run starts the script
\* body, or reports ErrScriptNotFound, which is no error.
LifecycleExec(c) ==
    /\ lpc[c] = "run"
    /\ IF ltarget[c][2] \in Manifest(cfg, ltarget[c][1]).scripts
       THEN /\ lpc' = [lpc EXCEPT ![c] = "body"]
            /\ scriptRuns' = [scriptRuns EXCEPT ![ltarget[c]] = @ + 1]
            /\ scriptState' = [scriptState EXCEPT ![ltarget[c]] = "running"]
       ELSE /\ lpc' = [lpc EXCEPT ![c] = "done"]
            /\ UNCHANGED <<scriptRuns, scriptState>>
    /\ UNCHANGED <<lifecycleFrame, lifecycleScriptsSeen>>

\* runLifecycleScript lines 231-256: the script body ends with or without
\* an error.
LifecycleReturn(c) ==
    /\ lpc[c] = "body"
    /\ lpc' = [lpc EXCEPT ![c] = "done"]
    /\ \E outcome \in {"ok", "failed"} :
          scriptState' = [scriptState EXCEPT ![ltarget[c]] = outcome]
    /\ UNCHANGED <<lifecycleFrame, lifecycleScriptsSeen, scriptRuns>>

(***************************************************************************)
(* Part 4.  The status UI (package statusui): Start, Stop, Set, Clear.     *)
(***************************************************************************)

\* Concurrent clients of the status UI in the status specification.
NumUiClients == 2

UiClients == 1..NumUiClients

\* Programs Start may create in one behaviour.
MaxStarts == 3

\* The keys and statuses those clients use.
UiKeys == { <<"npm", "a", 1>>, <<"npm", "b", 1>> }

UiKinds == {"text", "error"}

\* No message is waiting to be sent.
NoSend == [p |-> 0, msg |-> [type |-> "none", key |-> <<"npm", "a", 1>>, status |-> None]]

\* The variables of the status UI the CachePut callers own.
uiCacheFrame == <<errorShown, clearPending>>

\* A Start that makes a new program whether or not one is running.
StartAlwaysSucceeds(u) ==
    /\ upc[u] = "idle"
    /\ started < MaxStarts
    /\ program' = started + 1
    /\ started' = started + 1
    /\ statuses' = initialModel
    /\ uret' = [uret EXCEPT ![u] = "nil"]
    /\ UNCHANGED <<upc, uarg, uiCacheFrame, cacheVars, ctxDone, nonCacheVars>>

\* statusui.Start: an error when a program is running, else a new
\* tea.Program over initialModel() becomes the running program.
Start(u) ==
    /\ upc[u] = "idle"
    /\ IF program # 0
       THEN /\ uret' = [uret EXCEPT ![u] = "TUI already running"]
            /\ UNCHANGED <<program, started, statuses>>
       ELSE /\ started < MaxStarts
            /\ program' = started + 1
            /\ started' = started + 1
            /\ statuses' = initialModel
            /\ uret' = [uret EXCEPT ![u] = "nil"]
    /\ UNCHANGED <<upc, uarg, uiCacheFrame, cacheVars, ctxDone, nonCacheVars>>

\* statusui.Stop: a running program is told to quit and program becomes nil;
\* nothing happens when program is nil.
Stop(u) ==
    /\ upc[u] = "idle"
    /\ program' = 0
    /\ uret' = [uret EXCEPT ![u] = "void"]
    /\ UNCHANGED <<started, statuses, upc, uarg, uiCacheFrame, cacheVars,
                   ctxDone, nonCacheVars>>

\* statusui.Set lines 229-236: program is read under programLock; nil makes
\* Set return false.
Set(u) ==
    /\ upc[u] = "idle"
    /\ \E key \in UiKeys, kind \in UiKinds :
          IF program = 0
          THEN /\ uret' = [uret EXCEPT ![u] = "false"]
               /\ UNCHANGED <<upc, uarg>>
          ELSE /\ upc' = [upc EXCEPT ![u] = "send"]
               /\ uarg' = [uarg EXCEPT ![u] =
                              [p |-> program, msg |-> setStatusMsg(key, kind)]]
               /\ UNCHANGED uret
    /\ UNCHANGED <<program, started, statuses, uiCacheFrame, cacheVars,
                   ctxDone, nonCacheVars>>

\* statusui.Clear lines 243-250: program is read under programLock; nil
\* makes Clear return.
Clear(u) ==
    /\ upc[u] = "idle"
    /\ \E key \in UiKeys :
          IF program = 0
          THEN /\ uret' = [uret EXCEPT ![u] = "void"]
               /\ UNCHANGED <<upc, uarg>>
          ELSE /\ upc' = [upc EXCEPT ![u] = "send"]
               /\ uarg' = [uarg EXCEPT ![u] =
                              [p |-> program, msg |-> clearStatusMsg(key)]]
               /\ UNCHANGED uret
    /\ UNCHANGED <<program, started, statuses, uiCacheFrame, cacheVars,
                   ctxDone, nonCacheVars>>

\* statusui.Set lines 238-239 and statusui.Clear line 252: p.Send(msg) on the
\* program that was read, then the return.
SendMsg(u) ==
    /\ upc[u] = "send"
    /\ statuses' = Deliver(uarg[u].p, uarg[u].msg)
    /\ upc' = [upc EXCEPT ![u] = "idle"]
    /\ uarg' = [uarg EXCEPT ![u] = NoSend]
    /\ uret' = [uret EXCEPT ![u] =
                   IF uarg[u].msg.type = "set" THEN "true" ELSE "void"]
    /\ UNCHANGED <<program, started, uiCacheFrame, cacheVars, ctxDone,
                   nonCacheVars>>

\* No client of the status UI is active and no CachePut caller has used it.
UiClientsIdle ==
    /\ errorShown = [c \in Callers |-> FALSE]
    /\ clearPending = {}
    /\ upc = [u \in UiClients |-> "idle"]
    /\ uarg = [u \in UiClients |-> NoSend]
    /\ uret = [u \in UiClients |-> "none"]

\* The status UI as the install command leaves it before install.Run: Start
\* has made the first program.
StatusRunning ==
    /\ program = 1
    /\ started = 1
    /\ statuses = initialModel
    /\ UiClientsIdle


(***************************************************************************)
(* Part 5.  Single functions: secureJoin, config.Install and Uninstall.     *)
(***************************************************************************)

\* Longest entry name (in components) secureJoin is called with.
MaxNameLen == 3

\* The components an entry name is made of.
NameComps == {"a", "b", ".", ".."}

\* The entry names: up to MaxNameLen components, with or without a leading "/".
JoinNames ==
    { Name(abs, comps) :
        abs \in BOOLEAN,
        comps \in UNION { [1..n -> NameComps] : n \in 0..MaxNameLen } }

\* The base directories: the root, a directory and a directory below it.
JoinBases == { <<>>, <<"a">>, <<"a", "b">> }

NoJoin == [err |-> "not called", path |-> <<>>]

\* One call of secureJoin(base, name).
SecureJoin ==
    /\ joinResult = NoJoin
    /\ joinResult' = secureJoin(joinBase, joinName)
    /\ UNCHANGED <<joinBase, joinName, modVars, cycleVars, unitVars, cacheVars,
                   ctxDone, extractVars, installVars, statusVars>>

JoinIdle ==
    /\ joinBase = <<>>
    /\ joinName = NoName
    /\ joinResult = NoJoin

\* Package names and versions config.Install and config.Uninstall are
\* called with, and the sources a registry.Package can name.
PackNames == {"x", "y"}

PackVersions == {"1.0.0", "2.0.0"}

PackSources == {"npm", "jsr"}

\* A Go map[string]string: nil, or a function from the names it holds.
NilMap == [isNil |-> TRUE, m |-> <<>>]

MakeMap(f) == [isNil |-> FALSE, m |-> f]

EmptyMap == MakeMap(<<>>)

\* The maps a package.json can decode to.
GoMaps ==
    {NilMap} \cup
    { MakeMap(f) : f \in UNION { [S -> PackVersions] : S \in SUBSET PackNames } }

\* delete(m, name) on a map that is not nil.
Delete(g, name) ==
    MakeMap([n \in DOMAIN g.m \ {name} |-> g.m[n]])

\* m[name] = version on a map that is not nil.
Store(g, name, version) == MakeMap(Put(g.m, name, version))

Holds(g, name) == ~g.isNil /\ name \in DOMAIN g.m

\* The dependency maps of Mod, lines 31-33.
MapFields == {"dependencies", "devDependencies", "optionalDependencies"}

\* In how many of the three maps the name is a key.
Occurrences(md, name) == Cardinality({ f \in MapFields : Holds(md[f], name) })

\* config.Install, lines 397-421.
Install(name, version, source, dev) ==
    /\ IF source # "npm"
       THEN /\ modErr' = "unsupported package source"
            /\ UNCHANGED mod
       ELSE LET to == IF dev THEN "devDependencies" ELSE "dependencies"
                from == IF dev THEN "dependencies" ELSE "devDependencies"
                cleared == IF mod[from].isNil THEN mod[from]
                           ELSE Delete(mod[from], name)
                target == IF mod[to].isNil THEN EmptyMap ELSE mod[to]
            IN  /\ mod' = [mod EXCEPT ![from] = cleared,
                                      ![to] = Store(target, name, version)]
                /\ modErr' = "nil"
    /\ UNCHANGED <<joinVars, cycleVars, unitVars, cacheVars, ctxDone, extractVars,
                   installVars, statusVars>>

\* config.Uninstall, lines 423-441.
Uninstall(name) ==
    /\ mod' = [f \in MapFields |->
                  IF mod[f].isNil THEN mod[f] ELSE Delete(mod[f], name)]
    /\ modErr' = IF \A f \in MapFields : mod[f].isNil
                 THEN "no such dependency" ELSE "nil"
    /\ UNCHANGED <<joinVars, cycleVars, unitVars, cacheVars, ctxDone, extractVars,
                   installVars, statusVars>>

ModIdle ==
    /\ mod = [f \in MapFields |-> NilMap]
    /\ modErr = "none"


(***************************************************************************)
(* Part 6.  The recursion of install.Run over file: dependencies.          *)
(***************************************************************************)

\* Calls of install.Run one process may make in this specification.
MaxRunCalls == 4

\* file: dependencies one package.json names at most.
MaxFileDeps == 1

\* The directories with a package.json: the root workspace and a package in
\* a subdirectory of it.
FileDirs == {"root", "sub"}

\* A path names a directory as it is, or through a symlink in one of its
\* components (a node_modules link an earlier link call made).
FilePath(dir, via) == [dir |-> dir, via |-> via]

FilePaths ==
    { FilePath(d, "real") : d \in FileDirs } \cup {FilePath("sub", "alias")}

\* filepath.EvalSymlinks followed by filepath.Clean.
EvalSymlinks(p) == FilePath(p.dir, "real")

\* config.FindSubMods: the walk finds the package.json of the directory and
\* of the directories below it.
FindSubMods(p) == IF p.dir = "root" THEN {"root", "sub"} ELSE {p.dir}

NoCall == 0

NoTask == [pc |-> "none", todo |-> {}, child |-> NoCall]

\* The task of Run lines 84-157 when it starts on a mod: the paths
\* ResolveDependenciesDeep will send it.
NewTask(d) == [pc |-> "deps", todo |-> fileDeps[d], child |-> NoCall]

\* Run lines 72-84: one task for every mod FindSubMods finds under root.
TasksOf(p) ==
    [d \in FileDirs |-> IF d \in FindSubMods(p) THEN NewTask(d) ELSE NoTask]

\* Run line 160: wg.Wait() has returned.
Returned(i) == \A d \in FileDirs : wtask[i][d].pc \in {"none", "done"}

\* A shouldProcessPackage that never remembers a location.
processAlways(p) == TRUE

\* shouldProcessPackage, lines 164-200: the answer; the check and the
\* insertion are made under installedPackagesMu.
shouldProcessPackage(p) ==
    /\ p \notin installedPackages
    /\ EvalSymlinks(p) \notin installedPackages

\* Variables of the install run the tasks of this specification leave alone.
cycleFrame ==
    <<cacheVars, ctxDone, extractVars, statusVars, joinVars, modVars,
      unitVars, installOther, fileDeps>>

\* A shouldProcessPackage that records the cleaned path only.
MarkedRawOnly(p) == {p}

\* shouldProcessPackage lines 194-198: the cleaned path and its resolved
\* form are both recorded.
Marked(p) == {p, EvalSymlinks(p)}

\* Run lines 105-117: the task of mod d in call i receives a dependency,
\* links it and asks shouldProcessPackage; on true it marks the path and its
\* resolved form and calls Run on the path.
Dependency(i, d) ==
    /\ wtask[i][d].pc = "deps"
    /\ \E p \in wtask[i][d].todo :
          IF shouldProcessPackage(p)
          THEN /\ Len(calls) < MaxRunCalls
               /\ installedPackages' = installedPackages \cup Marked(p)
               /\ calls' = Append(calls, p)
               /\ wtask' = [wtask EXCEPT
                      ![i][d] = [pc |-> "wait", todo |-> @.todo \ {p},
                                 child |-> Len(calls) + 1],
                      ![Len(calls) + 1] = TasksOf(p)]
          ELSE /\ wtask' = [wtask EXCEPT ![i][d].todo = @ \ {p}]
               /\ UNCHANGED <<installedPackages, calls>>
    /\ UNCHANGED cycleFrame

\* Run line 117: the recursive call returns and the task goes on with the
\* executables of the dependency and the next dependency.
AfterRun(i, d) ==
    /\ wtask[i][d].pc = "wait"
    /\ Returned(wtask[i][d].child)
    /\ wtask' = [wtask EXCEPT ![i][d].pc = "deps", ![i][d].child = NoCall]
    /\ UNCHANGED <<cycleFrame, installedPackages, calls>>

\* Run lines 145-157: the channel is closed and drained; the task ends.
TaskEnd(i, d) ==
    /\ wtask[i][d].pc = "deps"
    /\ wtask[i][d].todo = {}
    /\ wtask' = [wtask EXCEPT ![i][d].pc = "done"]
    /\ UNCHANGED <<cycleFrame, installedPackages, calls>>

CycleIdle ==
    /\ fileDeps = [d \in FileDirs |-> {}]
    /\ calls = <<>>
    /\ wtask = [i \in 1..MaxRunCalls |-> [d \in FileDirs |-> NoTask]]


(***************************************************************************)
(* Part 7.  model.Update of the status UI with the order of its keys.      *)
(***************************************************************************)

\* The keys the operations of the run report under.
ModelKeys == {"pkg1", "pkg2", "pkg3"}

NoMsg == [type |-> "none", key |-> None, status |-> None]

\* slices.Contains(m.keys, key).
Contains(keys, key) == \E i \in 1..Len(keys) : keys[i] = key

\* The keys without key, in their order (Update lines 141-147).
Without(keys, key) == SelectSeq(keys, LAMBDA k : k # key)

\* A model.Update whose clearStatusMsg empties the ordered key list.
UpdateForgetsOrder(m, msg) ==
    IF msg.type = "set"
    THEN [statuses |-> [m.statuses EXCEPT ![msg.key] = msg.status],
          keys |-> IF Contains(m.keys, msg.key) THEN m.keys
                   ELSE Append(m.keys, msg.key)]
    ELSE [statuses |-> [m.statuses EXCEPT ![msg.key] = None],
          keys |-> <<>>]

\* model.Update, lines 124-158, on both fields of the model: statuses is the
\* map (None for a key that is absent), keys the order of rendering.
UpdateModel(m, msg) ==
    IF msg.type = "set"
    THEN [statuses |-> [m.statuses EXCEPT ![msg.key] = msg.status],
          keys |-> IF Contains(m.keys, msg.key) THEN m.keys
                   ELSE Append(m.keys, msg.key)]
    ELSE [statuses |-> [m.statuses EXCEPT ![msg.key] = None],
          keys |-> Without(m.keys, msg.key)]

\* initialModel, lines 112-118.
EmptyModel == [statuses |-> [k \in ModelKeys |-> None], keys |-> <<>>]

\* View, lines 160-183: the statuses in the order they are rendered.
View(m) ==
    LET shown == SelectSeq(m.keys, LAMBDA k : m.statuses[k] # None)
    IN  [i \in 1..Len(shown) |-> <<shown[i], m.statuses[shown[i]]>>]

\* The program handles one message; the shadow model handles it unless it
\* is about tmKey.
Handle(msg) ==
    /\ tm' = UpdateModel(tm, msg)
    /\ tmShadow' = IF msg.key = tmKey THEN tmShadow
                   ELSE UpdateModel(tmShadow, msg)
    /\ tmLast' = msg
    /\ UNCHANGED <<tmKey, tmFrame>>

\* Update on a setStatusMsg.
SetStatus(key, kind) == Handle(setStatusMsg(key, kind))

\* Update on a clearStatusMsg.
ClearStatus(key) == Handle(clearStatusMsg(key))

TmIdle ==
    /\ tm = EmptyModel
    /\ tmShadow = EmptyModel
    /\ tmKey = None
    /\ tmLast = NoMsg


(***************************************************************************)
(* Part 8.  Concurrent callers of shouldProcessPackage.                    *)
(***************************************************************************)

\* Concurrent callers of shouldProcessPackage.
NumProcessCallers == 3

ProcessCallers == 1..NumProcessCallers

\* The paths the callers ask about: every directory as it is, and one of
\* them also through two different symlinks.
ProcessPaths == FilePaths \cup {FilePath("sub", "alias2")}

\* shouldProcessPackage lines 172-180: the read under RLock; a hit returns
\* false at once.
ProcessProbe(c) ==
    /\ spc[c] = "call"
    /\ IF shouldProcessPackage(spath[c])
       THEN /\ spc' = [spc EXCEPT ![c] = "lock"]
            /\ UNCHANGED sret
       ELSE /\ spc' = [spc EXCEPT ![c] = "done"]
            /\ sret' = [sret EXCEPT ![c] = "false"]
    /\ UNCHANGED <<spath, installedPackages, procFrame>>

\* shouldProcessPackage lines 182-199: under the write lock the set is read
\* again; a miss records the path and its resolved form and returns true.
ProcessClaim(c) ==
    /\ spc[c] = "lock"
    /\ IF shouldProcessPackage(spath[c])
       THEN /\ installedPackages' = installedPackages \cup Marked(spath[c])
            /\ sret' = [sret EXCEPT ![c] = "true"]
       ELSE /\ sret' = [sret EXCEPT ![c] = "false"]
            /\ UNCHANGED installedPackages
    /\ spc' = [spc EXCEPT ![c] = "done"]
    /\ UNCHANGED <<spath, procFrame>>

ProcIdle ==
    /\ spc = [c \in ProcessCallers |-> "done"]
    /\ spath = [c \in ProcessCallers |-> FilePath("root", "real")]
    /\ sret = [c \in ProcessCallers |-> "none"]


(***************************************************************************)
(* Part 9.  link on a filesystem with symlinks.                            *)
(***************************************************************************)

\* The path of the link, node_modules/x of a workspace, and the directory
\* the dependency lives in.
LinkPath == <<"ws", "node_modules", "x">>

LinkTarget == Name(TRUE, <<"ws", "lib">>)

\* os.Lstat(p): "none" when p names an object, "notexist" when a component
\* is missing, "other" when a component is no directory or the symlinks of
\* the directory part do not end.
Lstat(f, p) ==
    LET r == Resolve(f, p, FALSE) IN
    IF r.ok THEN IF r.path \in DOMAIN f THEN "none" ELSE "notexist"
    ELSE IF r.path \in DOMAIN f THEN "other" ELSE "notexist"

\* os.RemoveAll(p): p (not followed) and everything below it.
RemoveAll(f, p) ==
    LET r == Resolve(f, p, FALSE) IN
    IF ~r.ok \/ r.path = <<>> THEN f
    ELSE [q \in { q \in DOMAIN f : ~IsPrefix(r.path, q) } |-> f[q]]

\* filepath.Clean of a path name.
CleanName(n) == Name(n.abs, Clean(n.comps, n.abs))

\* link lines 101-110 of link_unix.go: MkdirAll of the directory of the
\* link, then os.Symlink(original, link).
MakeLink(f, original, l) ==
    LET dir == MkdirAll(f, Butlast(l)) IN
    IF ~dir.ok THEN [ok |-> FALSE, fs |-> dir.fs]
    ELSE LET sl == Symlink(dir.fs, original, l) IN
         [ok |-> sl.ok, fs |-> sl.fs]

\* link(original, link), link_unix.go lines 73-110, under linkMut.
linkCall(f, original, l) ==
    LET st == Lstat(f, l)
        at == Resolve(f, l, FALSE).path
    IN  IF st = "other" THEN [ok |-> FALSE, fs |-> f]
        ELSE IF st = "notexist" THEN MakeLink(f, original, l)
        ELSE IF f[at].kind = "symlink"
             THEN IF CleanName(f[at].target) = CleanName(original)
                  THEN [ok |-> TRUE, fs |-> f]
                  ELSE MakeLink(Remove(f, l), original, l)
             ELSE IF f[at].kind = "dir"
                  THEN MakeLink(RemoveAll(f, l), original, l)
                  ELSE MakeLink(Remove(f, l), original, l)

\* The filesystem around the link: the workspace with the dependency, a
\* symlink b in it that leads to a directory elsewhere, and that place.
LinkBaseFs ==
    [p \in { <<>>, <<"ws">>, <<"ws", "lib">>, <<"ws", "b">>, <<"other">>,
             <<"other", "d">>, <<"other", "lib">> } |->
        IF p = <<"ws", "b">> THEN SymlinkNode(Name(TRUE, <<"other", "d">>))
        ELSE DirNode]

\* What a symlink at the link path may name before the call.
PriorLinkTargets ==
    { LinkTarget,
      Name(TRUE, <<"ws", ".", "lib">>),
      Name(TRUE, <<"ws", "b", "..", "lib">>),
      Name(TRUE, <<"other", "lib">>),
      Name(TRUE, <<"gone">>),
      Name(FALSE, <<"..", "lib">>) }

\* The states the link path can be in before the first call.
PriorFs ==
    LET nm == Butlast(LinkPath)
        withDir == Put(LinkBaseFs, nm, DirNode)
    IN  { LinkBaseFs, withDir, Put(LinkBaseFs, nm, FileNode(1)),
          Put(withDir, LinkPath, FileNode(1)),
          Put(withDir, LinkPath, DirNode),
          Put(Put(withDir, LinkPath, DirNode),
              LinkPath \o <<"f">>, FileNode(1)) }
        \cup { Put(withDir, LinkPath, SymlinkNode(t)) : t \in PriorLinkTargets }

\* The values of the parameter original.
LinkOriginals == { LinkTarget, Name(TRUE, <<"ws", ".", "lib">>),
                   Name(TRUE, <<"other", "lib">>) }

\* Calls of link with the same arguments this specification makes.
MaxLinkCalls == 2

\* One call of link(original, link).
CallLink ==
    /\ Len(lret) < MaxLinkCalls
    /\ LET res == linkCall(lfs, lorig, LinkPath) IN
          /\ lfs' = res.fs
          /\ lret' = Append(lret, res.ok)
          /\ lfs1' = IF lret = <<>> THEN res.fs ELSE lfs1
    /\ UNCHANGED <<lfs0, lorig, linkFrame>>

LinkIdle ==
    /\ lfs = LinkBaseFs
    /\ lfs0 = LinkBaseFs
    /\ lfs1 = LinkBaseFs
    /\ lorig = LinkTarget
    /\ lret = <<>>


(***************************************************************************)
(* Part 10.  config.FindSubMods: the walk over the directories of a root.  *)
(***************************************************************************)

\* The directories below the root in the lexical order filepath.WalkDir
\* visits them in: root, root/a, root/a/x, root/b.
WalkOrder == <<"root", "a", "ax", "b">>

WalkDirs == {WalkOrder[i] : i \in 1..Len(WalkOrder)}

\* The directory WalkDir read the entry of a directory from.
WalkParent(d) ==
    IF d = "ax" THEN "a" ELSE IF d = "root" THEN None ELSE "root"

\* What the walk meets at a directory: mod, Load finds a package.json there;
\* state, the ignore matcher matches it ("ignored"), os.ReadDir fails on it
\* ("unreadable") or neither.
DirFacts == [mod : BOOLEAN, state : {"plain", "ignored", "unreadable"}]

WalkTrees ==
    { t \in [WalkDirs -> DirFacts] : t["root"].state # "ignored" }

\* The position in the walk order after the directories below index i.
RECURSIVE AfterSubtree(_, _)
AfterSubtree(i, j) ==
    IF j > Len(WalkOrder) THEN j
    ELSE IF WalkParent(WalkOrder[j]) = WalkOrder[i]
            \/ (WalkParent(WalkOrder[j]) # None
                /\ WalkParent(WalkOrder[j]) \in
                      {WalkOrder[k] : k \in (i + 1)..(j - 1)})
         THEN AfterSubtree(i, j + 1)
         ELSE j

\* FindSubMods lines 370-390, the callback WalkDir makes with a nil error
\* before it reads a directory: a directory the matcher matches is skipped
\* with its subtree (filepath.SkipDir), otherwise Load is tried and its
\* manifest appended.
WalkDirFn ==
    /\ wpc = "fn"
    /\ LET d == WalkOrder[wpos] IN
       IF wtree[d].state = "ignored"
       THEN /\ wpos' = AfterSubtree(wpos, wpos + 1)
            /\ wpc' = IF AfterSubtree(wpos, wpos + 1) > Len(WalkOrder)
                      THEN "done" ELSE "fn"
            /\ UNCHANGED subMods
       ELSE /\ subMods' = IF wtree[d].mod THEN Append(subMods, d) ELSE subMods
            /\ wpc' = "readdir"
            /\ UNCHANGED wpos
    /\ UNCHANGED <<wtree, wlog, walkFrame>>

\* WalkDir reads the directory.  On an error it calls the callback again
\* with the error; the callback returns it (lines 371-373), WalkDir returns
\* it and FindSubMods logs it and returns what it has (lines 391-394).
\* Otherwise the walk goes on with the next directory.
WalkDirReadDir ==
    /\ wpc = "readdir"
    /\ LET d == WalkOrder[wpos] IN
       IF wtree[d].state = "unreadable"
       THEN /\ wlog' = Append(wlog, d)
            /\ wpc' = "done"
            /\ UNCHANGED wpos
       ELSE /\ wpos' = wpos + 1
            /\ wpc' = IF wpos + 1 > Len(WalkOrder) THEN "done" ELSE "fn"
            /\ UNCHANGED wlog
    /\ UNCHANGED <<wtree, subMods, walkFrame>>

WalkIdle ==
    /\ wtree = [d \in WalkDirs |-> [mod |-> FALSE, state |-> "plain"]]
    /\ wpc = "done"
    /\ wpos = 1
    /\ subMods = <<>>
    /\ wlog = <<>>


(***************************************************************************)
(* Part 11.  The dependency stream of one workspace task.                  *)
(***************************************************************************)

\* The most entries the dependency maps of the manifest have together.
MaxStreamDeps == 18

\* runGo lines 165-262 up to the send: the package is found in the cache or
\* resolved and cached and the goroutine comes to its select; or a step
\* fails and the goroutine returns, after meta.CancelCause when the entry is
\* not optional and the error is not context.Canceled.
StreamRunGo ==
    /\ srun > 0
    /\ srun' = srun - 1
    /\ \/ /\ ssend' = ssend + 1
          /\ UNCHANGED sctx
       \/ /\ UNCHANGED ssend
          /\ sctx' \in {sctx, TRUE}
    /\ UNCHANGED <<sdeps, sch, sclosed, scons, streamFrame>>

\* runGo lines 234-238 and 264-267: select between the send on the channel,
\* possible while the buffer has room or the receiver waits, and ctx.Done().
StreamSend ==
    /\ ssend > 0
    /\ \/ /\ sch < ChanCap
          /\ sch' = sch + 1
       \/ /\ sctx
          /\ UNCHANGED sch
    /\ ssend' = ssend - 1
    /\ UNCHANGED <<sdeps, srun, sclosed, scons, sctx, streamFrame>>

\* ResolveDependenciesDeep lines 295-298: wg.Wait() returns when every runGo
\* has returned, then close(ch).
StreamClose ==
    /\ ~sclosed
    /\ srun = 0
    /\ ssend = 0
    /\ sclosed' = TRUE
    /\ UNCHANGED <<sdeps, srun, ssend, sch, scons, sctx, streamFrame>>

\* Run line 104: the range over the channel receives the next value, or
\* ends when the channel is closed and empty.
StreamRecv ==
    /\ scons = "range"
    /\ IF sch > 0
       THEN /\ sch' = sch - 1
            /\ scons' = "body"
       ELSE /\ sclosed
            /\ scons' = "after"
            /\ UNCHANGED sch
    /\ UNCHANGED <<sdeps, srun, ssend, sclosed, sctx, streamFrame>>

\* Run lines 105-145, the body of the loop: link, the recursive Run, the
\* context check, the bins.  It ends and the loop goes on; or the context
\* is found cancelled and the task returns; or a step fails and the task
\* returns, after logging (optional) or after meta.CancelCause.
StreamBody ==
    /\ scons = "body"
    /\ \/ /\ ~sctx
          /\ scons' = "range"
          /\ UNCHANGED sctx
       \/ /\ sctx
          /\ scons' = "returned"
          /\ UNCHANGED sctx
       \/ /\ scons' = "returned"
          /\ sctx' \in {sctx, TRUE}
    /\ UNCHANGED <<sdeps, srun, ssend, sch, sclosed, streamFrame>>

\* main lines 19-24 or another task of the run: the context is cancelled.
StreamCancel ==
    /\ ~sctx
    /\ sctx' = TRUE
    /\ UNCHANGED <<sdeps, srun, ssend, sch, sclosed, scons, streamFrame>>

StreamIdle ==
    /\ sdeps = 0
    /\ srun = 0
    /\ ssend = 0
    /\ sch = 0
    /\ sclosed = TRUE
    /\ scons = "after"
    /\ sctx = FALSE


(***************************************************************************)
(* Part 12.  ignore.GetIgnoreMatcher called from concurrent Run tasks.     *)
(***************************************************************************)

\* Workspace tasks that call Run on a cached location at the same time.
NumIgnoreCallers == 3

IgnoreCallers == 1..NumIgnoreCallers

\* The roots of the recursive calls: shouldProcessPackage lets one task
\* only call Run on a location, so the roots of the callers differ.
IgnoreRoot(i) == PackagePath(<<"npm", "dep", i>>)

IgnoreRoots ==
    { f \in [IgnoreCallers -> { IgnoreRoot(i) : i \in IgnoreCallers }] :
        \A c1, c2 \in IgnoreCallers : c1 # c2 => f[c1] # f[c2] }

\* Another task is at a read or at a write of the map.
OtherAtMap(c) ==
    \E o \in IgnoreCallers \ {c} : ipc[o] \in {"lookup", "store"}

\* Run line 72 and FindSubMods line 367: the task calls GetIgnoreMatcher.
IgnoreCall(c) ==
    /\ ~ifatal
    /\ ipc[c] = "call"
    /\ ipc' = [ipc EXCEPT ![c] = "lookup"]
    /\ UNCHANGED <<ignoreMatchers, ipath, ifatal, ignoreFrame>>

\* GetIgnoreMatcher lines 49-52: "matcher, ok := ignoreMatchers[path]", a
\* read of the map without a lock.  A read that runs together with a write
\* of another task either goes through or is detected by the runtime, which
\* ends the process.
IgnoreLookup(c) ==
    /\ ~ifatal
    /\ ipc[c] = "lookup"
    /\ \/ /\ ipc' = [ipc EXCEPT ![c] =
                        IF ipath[c] \in ignoreMatchers THEN "done" ELSE "build"]
          /\ UNCHANGED ifatal
       \/ /\ \E o \in IgnoreCallers \ {c} : ipc[o] = "store"
          /\ ifatal' = TRUE
          /\ UNCHANGED ipc
    /\ UNCHANGED <<ignoreMatchers, ipath, ignoreFrame>>

\* GetIgnoreMatcher lines 54-58: getIgnoreMatcher builds the matcher, or
\* fails and nil is returned.
IgnoreBuild(c) ==
    /\ ~ifatal
    /\ ipc[c] = "build"
    /\ \E next \in {"store", "done"} : ipc' = [ipc EXCEPT ![c] = next]
    /\ UNCHANGED <<ignoreMatchers, ipath, ifatal, ignoreFrame>>

\* GetIgnoreMatcher line 59: "ignoreMatchers[path] = matcher", a write of
\* the map without a lock, with the same two outcomes when another task is
\* at the map.
IgnoreStore(c) ==
    /\ ~ifatal
    /\ ipc[c] = "store"
    /\ \/ /\ ignoreMatchers' = ignoreMatchers \cup {ipath[c]}
          /\ ipc' = [ipc EXCEPT ![c] = "done"]
          /\ UNCHANGED ifatal
       \/ /\ OtherAtMap(c)
          /\ ifatal' = TRUE
          /\ UNCHANGED <<ignoreMatchers, ipc>>
    /\ UNCHANGED <<ipath, ignoreFrame>>

IgnoreIdle ==
    /\ ignoreMatchers = {}
    /\ ipc = [c \in IgnoreCallers |-> "done"]
    /\ ipath = [c \in IgnoreCallers |-> IgnoreRoot(c)]
    /\ ifatal = FALSE

ExtraIdle == WalkIdle /\ StreamIdle /\ IgnoreIdle

UnitIdle == TmIdle /\ ProcIdle /\ LinkIdle /\ ExtraIdle

SideIdle == JoinIdle /\ ModIdle /\ CycleIdle /\ UnitIdle

\* The filesystem when extraction starts: the parent directory of the cache
\* entry with a file of its own, and the empty staging directory that
\* os.MkdirTemp has just made.
InitialFs ==
    [p \in { <<>>, <<"cache">>, <<"cache", "npm">>, ParentDir, StagingDir,
             ParentDir \o <<"victim">> } |->
        IF p = ParentDir \o <<"victim">> THEN FileNode(0) ELSE DirNode]

CacheIdle ==
    /\ keyOf = [c \in Callers |-> KeyOfCaller(c)]
    /\ expSum = [k \in Keys |-> Digest("genuine")]
    /\ cpc = [c \in Callers |-> "done"]
    /\ cacheLock = {}
    /\ cacheLocks = {}
    /\ keyHolder = [k \in Keys |-> {}]
    /\ finalDir = [k \in Keys |-> NoDir]
    /\ tmpFiles = [c \in Callers |-> NoFile]
    /\ staging = [c \in Callers |-> NoDir]
    /\ gotSum = [c \in Callers |-> NoSum]
    /\ result = [c \in Callers |-> NoResult]
    /\ tarballCache = [k \in Keys |-> NoTarball]
    /\ downloads = [c \in Callers |-> 0]

ExtractIdle ==
    /\ archive = <<>>
    /\ xpc = "idle"
    /\ xidx = 1
    /\ rootDir = <<>>
    /\ fs = InitialFs
    /\ extractedPkgJSON = FALSE
    /\ touched = {}
    /\ xerr = None

InitCache ==
    /\ keyOf = [c \in Callers |-> KeyOfCaller(c)]
    /\ \E e \in {Digest("genuine"), Digest("malformed")} :
          expSum = [k \in Keys |->
                       IF k = SharedKey THEN e ELSE Digest("genuine")]
    /\ cpc = [c \in Callers |-> "call"]
    /\ cacheLock = {}
    /\ cacheLocks = {}
    /\ keyHolder = [k \in Keys |-> {}]
    /\ finalDir = [k \in Keys |-> NoDir]
    /\ tmpFiles = [c \in Callers |-> NoFile]
    /\ staging = [c \in Callers |-> NoDir]
    /\ gotSum = [c \in Callers |-> NoSum]
    /\ result = [c \in Callers |-> NoResult]
    /\ \E t \in {NoTarball} \cup TarballEntries :
          tarballCache = [k \in Keys |->
                             IF k = SharedKey THEN t ELSE NoTarball]
    /\ downloads = [c \in Callers |-> 0]
    /\ ctxDone = NoCause
    /\ ExtractIdle
    /\ InstallIdle
    /\ StatusRunning
    /\ SideIdle

NextCache ==
    \/ \E c \in Callers : LockCacheEnter(c)
    \/ \E c \in Callers : LockCacheAcquire(c)
    \/ \E c \in Callers : StatFinal(c)
    \/ \E c \in Callers : DownloadBegin(c)
    \/ \E c \in Callers : DownloadCopy(c)
    \/ \E c \in Callers : VerifyChecksum(c)
    \/ \E c \in Callers : ExtractStep(c)
    \/ \E c \in Callers : RenameStaging(c)
    \/ \E c \in Callers : ClearAfterInstall(c)
    \/ CancelDuringCache
    \/ ExecuteReturned

SpecCache == InitCache /\ [][NextCache]_vars

\* The steps of one CachePut call.
CachePutStep(c) ==
    \/ LockCacheEnter(c)
    \/ LockCacheAcquire(c)
    \/ StatFinal(c)
    \/ DownloadBegin(c)
    \/ DownloadCopy(c)
    \/ VerifyChecksum(c)
    \/ ExtractStep(c)
    \/ RenameStaging(c)

\* The goroutine of a call that can take a step is scheduled in the end, and
\* a download or an extraction that is under way ends.
FairSpecCache == SpecCache /\ \A c \in Callers : WF_vars(CachePutStep(c))

InitExtract ==
    /\ archive \in Archives
    /\ xpc = "start"
    /\ xidx = 1
    /\ rootDir = <<>>
    /\ fs = InitialFs
    /\ extractedPkgJSON = FALSE
    /\ touched = {}
    /\ xerr = None
    /\ CacheIdle
    /\ ctxDone = NoCause
    /\ InstallIdle
    /\ StatusRunning
    /\ SideIdle

NextExtract ==
    \/ ExtractBegin
    \/ ExtractEntry
    \/ ExtractEnd

SpecExtract == InitExtract /\ [][NextExtract]_vars

\* One install run of a fresh process over an empty cache.
Init ==
    /\ cfg \in Configs
    /\ run = 1
    /\ FreshProcess
    /\ faults = 0
    /\ links = [p \in Producers |-> NoLink]
    /\ binLinks = [b \in {W1, W2} \X BinNames |-> NoLink]
    /\ firstRun = NoSnapshot
    /\ lpc = [c \in LifecycleCallers |-> "done"]
    /\ ltarget = [c \in LifecycleCallers |-> <<W1, "install">>]
    /\ CacheIdle
    /\ ExtractIdle
    /\ ctxDone = NoCause
    /\ StatusRunning
    /\ SideIdle

\* The steps of a run in which nothing fails.
NextRun ==
    \/ SpawnMod
    \/ \E d \in Mods : RunLifecycleScript(d)
    \/ \E d \in Mods : ScriptEnd(d)
    \/ \E d \in Mods : ResolveDependenciesDeep(d)
    \/ \E p \in Producers : RunGoResolve(p)
    \/ \E p \in Producers : PutLock(p)
    \/ \E p \in Producers : PutFetch(p)
    \/ \E p \in Producers : Send(p)
    \/ \E d \in Mods : Recv(d)
    \/ \E d \in Mods : link(d)
    \/ \E d \in Mods : Process(d)
    \/ \E d \in Mods : Wait(d)
    \/ \E d \in Mods : Bins(d)
    \/ MainExit

Next ==
    \/ NextRun
    \/ \E p \in Producers : RunGoPutFailed(p)
    \/ Signal

Spec == Init /\ [][Next]_vars

\* Two install runs, one process after the other, over the same manifests
\* and registry; the environment lets nothing fail in either.
InitTwice ==
    /\ cfg \in Configs
    /\ run = 1
    /\ FreshProcess
    /\ faults = MaxFaults
    /\ links = [p \in Producers |-> NoLink]
    /\ binLinks = [b \in {W1, W2} \X BinNames |-> NoLink]
    /\ firstRun = NoSnapshot
    /\ lpc = [c \in LifecycleCallers |-> "done"]
    /\ ltarget = [c \in LifecycleCallers |-> <<W1, "install">>]
    /\ CacheIdle
    /\ ExtractIdle
    /\ ctxDone = NoCause
    /\ StatusRunning
    /\ SideIdle

NextTwice ==
    \/ NextRun
    \/ SecondRun

SpecInstallTwice == InitTwice /\ [][NextTwice]_vars

\* Concurrent callers of runLifecycleScript, each for one of the targets.
InitLifecycle ==
    /\ cfg = [ignoreScripts |-> FALSE, optional |-> FALSE,
              w2Name |-> "lib", w2Range |-> {1}]
    /\ run = 1
    /\ FreshProcess
    /\ faults = 0
    /\ links = [p \in Producers |-> NoLink]
    /\ binLinks = [b \in {W1, W2} \X BinNames |-> NoLink]
    /\ firstRun = NoSnapshot
    /\ lpc = [c \in LifecycleCallers |-> "call"]
    /\ ltarget \in [LifecycleCallers -> LifecycleTargets]
    /\ CacheIdle
    /\ ExtractIdle
    /\ ctxDone = NoCause
    /\ StatusRunning
    /\ SideIdle

NextLifecycle ==
    \/ \E c \in LifecycleCallers : LifecycleProbe(c)
    \/ \E c \in LifecycleCallers : LifecycleClaim(c)
    \/ \E c \in LifecycleCallers : LifecycleExec(c)
    \/ \E c \in LifecycleCallers : LifecycleReturn(c)

SpecLifecycle == InitLifecycle /\ [][NextLifecycle]_vars

\* The status UI used by concurrent clients, starting with no program.
InitStatusUI ==
    /\ program = 0
    /\ started = 0
    /\ statuses = initialModel
    /\ UiClientsIdle
    /\ CacheIdle
    /\ ExtractIdle
    /\ InstallIdle
    /\ ctxDone = NoCause
    /\ SideIdle

NextStatusUI ==
    \/ \E u \in UiClients : Start(u)
    \/ \E u \in UiClients : Stop(u)
    \/ \E u \in UiClients : Set(u)
    \/ \E u \in UiClients : Clear(u)
    \/ \E u \in UiClients : SendMsg(u)

SpecStatusUI == InitStatusUI /\ [][NextStatusUI]_vars

\* secureJoin is about to be called with any base and any entry name.
InitJoin ==
    /\ CacheIdle
    /\ ExtractIdle
    /\ InstallIdle
    /\ StatusRunning
    /\ ctxDone = NoCause
    /\ ModIdle
    /\ CycleIdle
    /\ UnitIdle
    /\ joinBase \in JoinBases
    /\ joinName \in JoinNames
    /\ joinResult = NoJoin

NextJoin == SecureJoin

SpecJoin == InitJoin /\ [][NextJoin]_vars

\* A manifest in which every package name is a key of at most one of the
\* three maps, before any call of Install or Uninstall.
InitManifest ==
    /\ CacheIdle
    /\ ExtractIdle
    /\ InstallIdle
    /\ StatusRunning
    /\ ctxDone = NoCause
    /\ JoinIdle
    /\ CycleIdle
    /\ UnitIdle
    /\ mod \in [MapFields -> GoMaps]
    /\ \A n \in PackNames : Occurrences(mod, n) <= 1
    /\ modErr = "none"

NextManifest ==
    \/ \E n \in PackNames, v \in PackVersions, src \in PackSources,
          dev \in BOOLEAN : Install(n, v, src, dev)
    \/ \E n \in PackNames : Uninstall(n)

SpecManifest == InitManifest /\ [][NextManifest]_vars

\* The install command has called Run on the root workspace; every
\* package.json names up to MaxFileDeps directories with file:, cycles and
\* references to the root included.
InitCycle ==
    /\ CacheIdle
    /\ ExtractIdle
    /\ InstallIdle
    /\ StatusRunning
    /\ ctxDone = NoCause
    /\ JoinIdle
    /\ ModIdle
    /\ UnitIdle
    /\ fileDeps \in [FileDirs ->
                        { S \in SUBSET FilePaths : Cardinality(S) <= MaxFileDeps }]
    /\ calls = <<FilePath("root", "real")>>
    /\ wtask = [i \in 1..MaxRunCalls |->
                   IF i = 1
                   THEN [d \in FileDirs |->
                           IF d \in FindSubMods(FilePath("root", "real"))
                           THEN [pc |-> "deps", todo |-> fileDeps[d],
                                 child |-> NoCall]
                           ELSE NoTask]
                   ELSE [d \in FileDirs |-> NoTask]]

NextCycle ==
    \/ \E i \in 1..MaxRunCalls, d \in FileDirs : Dependency(i, d)
    \/ \E i \in 1..MaxRunCalls, d \in FileDirs : AfterRun(i, d)
    \/ \E i \in 1..MaxRunCalls, d \in FileDirs : TaskEnd(i, d)

SpecCycle == InitCycle /\ [][NextCycle]_vars

\* The Go scheduler runs every goroutine that can take a step.
FairSpecCycle == SpecCycle /\ WF_vars(NextCycle)

\* A program that has just started, and one key picked as the key of the
\* operation that will be cancelled.
InitModel ==
    /\ ExtraIdle
    /\ CacheIdle
    /\ ExtractIdle
    /\ InstallIdle
    /\ StatusRunning
    /\ ctxDone = NoCause
    /\ JoinIdle
    /\ ModIdle
    /\ CycleIdle
    /\ ProcIdle
    /\ LinkIdle
    /\ tm = EmptyModel
    /\ tmShadow = EmptyModel
    /\ tmKey \in ModelKeys
    /\ tmLast = NoMsg

NextModel ==
    \/ \E key \in ModelKeys, kind \in StatusKinds : SetStatus(key, kind)
    \/ \E key \in ModelKeys : ClearStatus(key)

SpecModel == InitModel /\ [][NextModel]_vars

\* Every caller is about to ask shouldProcessPackage about some path; the
\* process has recorded nothing yet.
InitProcess ==
    /\ ExtraIdle
    /\ CacheIdle
    /\ ExtractIdle
    /\ InstallIdle
    /\ StatusRunning
    /\ ctxDone = NoCause
    /\ JoinIdle
    /\ ModIdle
    /\ CycleIdle
    /\ TmIdle
    /\ LinkIdle
    /\ spc = [c \in ProcessCallers |-> "call"]
    /\ spath \in [ProcessCallers -> ProcessPaths]
    /\ sret = [c \in ProcessCallers |-> "none"]

NextProcess ==
    \/ \E c \in ProcessCallers : ProcessProbe(c)
    \/ \E c \in ProcessCallers : ProcessClaim(c)

SpecProcess == InitProcess /\ [][NextProcess]_vars

\* link is about to be called; the link path is in any of its prior states.
InitLink ==
    /\ ExtraIdle
    /\ CacheIdle
    /\ ExtractIdle
    /\ InstallIdle
    /\ StatusRunning
    /\ ctxDone = NoCause
    /\ JoinIdle
    /\ ModIdle
    /\ CycleIdle
    /\ TmIdle
    /\ ProcIdle
    /\ lfs \in PriorFs
    /\ lfs0 = lfs
    /\ lfs1 = lfs
    /\ lorig \in LinkOriginals
    /\ lret = <<>>

NextLink == CallLink

SpecLink == InitLink /\ [][NextLink]_vars

\* ResolveDependenciesDeep has started one runGo for each of the entries of
\* the manifest and the task begins to range over the channel.
InitStream ==
    /\ CacheIdle
    /\ ExtractIdle
    /\ InstallIdle
    /\ StatusRunning
    /\ ctxDone = NoCause
    /\ JoinIdle
    /\ ModIdle
    /\ CycleIdle
    /\ TmIdle
    /\ ProcIdle
    /\ LinkIdle
    /\ WalkIdle
    /\ IgnoreIdle
    /\ sdeps \in 0..MaxStreamDeps
    /\ srun = sdeps
    /\ ssend = 0
    /\ sch = 0
    /\ sclosed = FALSE
    /\ scons = "range"
    /\ sctx = FALSE

NextStream ==
    \/ StreamRunGo
    \/ StreamSend
    \/ StreamClose
    \/ StreamRecv
    \/ StreamBody
    \/ StreamCancel

SpecStream == InitStream /\ [][NextStream]_vars

\* Every goroutine that can take a step is scheduled in the end; nothing
\* makes the context be cancelled.
FairSpecStream ==
    /\ SpecStream
    /\ WF_vars(StreamRunGo)
    /\ WF_vars(StreamSend)
    /\ WF_vars(StreamClose)
    /\ WF_vars(StreamRecv)
    /\ WF_vars(StreamBody)

\* The tasks of a run call Run on the cached locations of their
\* dependencies; the map holds the root of the top-level call or nothing.
InitIgnore ==
    /\ CacheIdle
    /\ ExtractIdle
    /\ InstallIdle
    /\ StatusRunning
    /\ ctxDone = NoCause
    /\ JoinIdle
    /\ ModIdle
    /\ CycleIdle
    /\ TmIdle
    /\ ProcIdle
    /\ LinkIdle
    /\ WalkIdle
    /\ StreamIdle
    /\ ignoreMatchers \in {{}, {<<"pwd">>}}
    /\ ipc = [c \in IgnoreCallers |-> "call"]
    /\ ipath \in IgnoreRoots
    /\ ifatal = FALSE

NextIgnore ==
    \/ \E c \in IgnoreCallers : IgnoreCall(c)
    \/ \E c \in IgnoreCallers : IgnoreLookup(c)
    \/ \E c \in IgnoreCallers : IgnoreBuild(c)
    \/ \E c \in IgnoreCallers : IgnoreStore(c)

SpecIgnore == InitIgnore /\ [][NextIgnore]_vars

\* FindSubMods on a root, for every tree of the bounded shape.
InitWalk ==
    /\ CacheIdle
    /\ ExtractIdle
    /\ InstallIdle
    /\ StatusRunning
    /\ ctxDone = NoCause
    /\ JoinIdle
    /\ ModIdle
    /\ CycleIdle
    /\ TmIdle
    /\ ProcIdle
    /\ LinkIdle
    /\ StreamIdle
    /\ IgnoreIdle
    /\ wtree \in WalkTrees
    /\ wpc = "fn"
    /\ wpos = 1
    /\ subMods = <<>>
    /\ wlog = <<>>

NextWalk ==
    \/ WalkDirFn
    \/ WalkDirReadDir

SpecWalk == InitWalk /\ [][NextWalk]_vars


(***************************************************************************)
(* Properties of the install run (Spec, SpecInstallTwice, SpecLifecycle).  *)
(***************************************************************************)

\* C4: when a second install run over the same manifests and registry has
\* completed, every node_modules link and every .bin link has the target it
\* had after the first run and the cache holds the same entries.
SecondRunChangesNothing ==
    (run = 2 /\ exit.code = 0) =>
        /\ links = firstRun.links
        /\ binLinks = firstRun.binLinks
        /\ { k \in Keys : finalDir[k] # NoDir } = firstRun.cache

\* C5: under any interleaving of concurrent runLifecycleScript callers the
\* script body of a (package directory, script) pair is started at most
\* once in the process.
ScriptBodyAtMostOnce ==
    \A x \in Mods \X Scripts : scriptRuns[x] <= 1

\* Two callers ask for the same script; one runs its body while the other,
\* which probed before the key was inserted, waits for the write lock.
SecondCallerPastProbe ==
    \E c1, c2 \in LifecycleCallers :
        /\ c1 # c2
        /\ ltarget[c1] = ltarget[c2]
        /\ lpc[c1] = "body"
        /\ lpc[c2] = "lock"
        /\ scriptRuns[ltarget[c1]] = 1

\* C6: in a workspace task (scripts not ignored) preinstall has finished
\* before any dependency of the workspace is resolved or linked, every link
\* of the workspace is made before its install script starts, and
\* postinstall starts only after install has finished without error.
LifecycleOrder ==
    ~cfg.ignoreScripts =>
        \A w \in {W1, W2} :
            /\ (\E p \in Producers : p[1] = w /\ ppc[p] # "idle")
                   => scriptState[<<w, "preinstall">>] = "ok"
            /\ scriptState[<<w, "install">>] # "none"
                   => /\ Closed(w)
                      /\ ch[w] = <<>>
                      /\ tpc[w] \in {"script", "postinstall", "done"}
            /\ ("install" \in Manifest(cfg, w).scripts
                    /\ scriptState[<<w, "postinstall">>] # "none")
                   => scriptState[<<w, "install">>] = "ok"

\* C7: for every dependency of a workspace resolved from the registry,
\* CachePut has returned before node_modules/<k> is linked, the link exists
\* before the recursive install into the cached directory starts, and that
\* install has completed before a .bin link of the dependency is made.
DependencyStepsOrdered ==
    /\ \A p \in Producers :
          links[p] # NoLink => finalDir[KeyOfLoc(links[p])] # NoDir
    /\ \A k \in Keys :
          tpc[k] # "idle" => \E p \in Producers : links[p] = PackagePath(k)
    /\ \A b \in DOMAIN binLinks :
          binLinks[b] # NoLink => tpc[KeyOfLoc(binLinks[b])] = "done"

\* The cache entry both workspaces' dependency a resolved to, when it is
\* the same one.
SameVersion(k) ==
    /\ pver[<<W1, "a">>] # 0
    /\ k = PutKey(cfg, <<W1, "a">>)
    /\ k = PutKey(cfg, <<W2, "a">>)

\* C8: when both workspaces' dependency a resolved to the same version over
\* an initially empty cache and both links are made, the tarball was
\* downloaded exactly once and both links point to that entry's directory.
OneDownloadForTwoWorkspaces ==
    \A k \in Keys :
        (/\ SameVersion(k)
         /\ links[<<W1, "a">>] # NoLink
         /\ links[<<W2, "a">>] # NoLink) =>
            /\ fetched[k] = 1
            /\ links[<<W1, "a">>] = PackagePath(k)
            /\ links[<<W2, "a">>] = PackagePath(k)

\* Both workspaces asked the registry (none found a in the cache), got the
\* same version and are linked to it after a run that ended with status 0.
BothWorkspacesLinked ==
    /\ exit.code = 0
    /\ cfg.w2Range = {1, 2}
    /\ SameVersion(<<"npm", "a", 2>>)
    /\ links[<<W1, "a">>] = PackagePath(<<"npm", "a", 2>>)
    /\ links[<<W2, "a">>] = PackagePath(<<"npm", "a", 2>>)
    /\ fetched[<<"npm", "a", 2>>] = 1

\* Errors of runGo for an entry of dependencies: resolving or caching failed.
RunGoFailures ==
    { f \in failed : f[1] \in {"failed to resolve", "failed to cache"}
                     /\ f[3] = "a" }

OptionalEntryFailures ==
    { f \in failed : f[2] = "w1" /\ f[3] = "o" }

\* C10: a failure while resolving, caching or linking an entry of
\* optionalDependencies never cancels the run and skips only that entry:
\* when nothing else failed, the other dependency of the workspace is
\* linked and the workspace's install and postinstall scripts run.
OptionalFailureSkipsOnlyEntry ==
    /\ \A f \in OptionalEntryFailures :
          \A i \in 1..Len(cancelCalls) : cancelCalls[i] # f
    /\ (/\ exit.code = 0
        /\ ~cfg.ignoreScripts
        /\ cfg.w2Name # Manifest(cfg, W1).name
        /\ failed # {}
        /\ failed = OptionalEntryFailures) =>
            /\ links[<<W1, "a">>] # NoLink
            /\ scriptState[<<W1, "install">>] = "ok"
            /\ scriptState[<<W1, "postinstall">>] = "ok"

\* The resolved dependency dep was emitted for the manifest entry of p.
EmittedFor(dep, p) ==
    /\ dep.name = p[2]
    /\ KeyOfLoc(dep.loc)[2] = DepOf(cfg, p).pkg
    /\ KeyOfLoc(dep.loc)[3] \in DepOf(cfg, p).range

\* C14: every ResolvedDependency on a workspace's channel or in the hands of
\* its task carries the manifest key of its entry and the cache directory of
\* the package the entry names (the aliased package for an alias); every
\* link node_modules/<k> points to an existing cache entry of that package;
\* and after a run without failure every entry that was resolved is linked.
ManifestKeyNamesLink ==
    /\ \A w \in {W1, W2} :
          /\ \A i \in 1..Len(ch[w]) :
                \E p \in Producers : p[1] = w /\ EmittedFor(ch[w][i], p)
          /\ tdep[w] # NoDep =>
                \E p \in Producers : p[1] = w /\ EmittedFor(tdep[w], p)
    /\ \A p \in Producers :
          links[p] # NoLink =>
              /\ EmittedFor([name |-> p[2], loc |-> links[p]], p)
              /\ finalDir[KeyOfLoc(links[p])] # NoDir
    /\ (exit.code = 0 /\ failed = {}) =>
          \A p \in Producers :
              p \in Started(cfg, p[1]) => links[p] # NoLink

\* The entry "o" of w1, an alias of package b, is linked at node_modules/o
\* to the cache directory of b after a run that ended with status 0.
AliasLinked ==
    /\ exit.code = 0
    /\ links[<<W1, "o">>] = PackagePath(<<"npm", "b", 1>>)
    /\ links[<<W1, "a">>] # NoLink

\* The failures of link and of the bins step that install.Run has handled
\* for entries that are not listed in optionalDependencies.
RegularLinkFailures ==
    { e \in failed :
        /\ e[1] \in {"failed to link", "failed to resolve bins"}
        /\ ~DepOf(cfg, << <<"workspace", e[2], 0>>, e[3] >>).optional }

\* C24: a failure to link a dependency that is listed under dependencies or
\* devDependencies, or to resolve or link its bins, cancels the run with
\* that error, whether or not the run installs optional dependencies.
RegularLinkFailureCancels ==
    \A e \in RegularLinkFailures :
        /\ ctxDone # NoCause
        /\ \E i \in 1..Len(cancelCalls) : cancelCalls[i] = e

\* C27: once the context is cancelled no step starts the task of a
\* workspace or of a package, none starts a runGo goroutine, and no runGo
\* goes on to a registry request (it reaches CachePut only through one) or
\* from CachePut's lock to the download and extraction.
NothingStartsAfterCancel ==
    [][ctxDone # NoCause =>
          /\ \A d \in Mods : tpc[d] = "idle" => tpc'[d] = "idle"
          /\ \A p \in Producers :
                /\ ppc'[p] = "runGo" => ppc[p] = "runGo"
                /\ ppc'[p] = "put" => ppc[p] = "put"
                /\ ppc'[p] = "fetch" => ppc[p] = "fetch"]_vars

\* C36: once the context is cancelled no install and no postinstall script
\* of a workspace is started.
NoInstallScriptAfterCancel ==
    [][ctxDone # NoCause =>
          \A d \in {W1, W2} : \A n \in {"install", "postinstall"} :
              scriptRuns'[<<d, n>>] = scriptRuns[<<d, n>>]]_vars

\* C37: while the install script of a workspace runs, the task of every
\* package the workspace has a link to has returned: its links, bins and
\* lifecycle scripts are done.
DependenciesInstalledBeforeInstallScript ==
    \A d \in {W1, W2} :
        scriptState[<<d, "install">>] = "running" =>
            \A p \in Producers :
                (p[1] = d /\ links[p] # NoLink) =>
                    tpc[KeyOfLoc(links[p])] = "done"

\* The package whose executable a .bin link leads to.
BinOwner(d, binName) == binLinks[<<d, binName>>][3]

\* C38: in every run that ends with status 0 and without a logged failure
\* the link node_modules/.bin/cli of w1, whose dependencies a and b both
\* declare the executable cli, leads to the same package, the one the
\* manifest names first, whatever the order in which the results arrive.
BinTargetIndependentOfOrder ==
    (exit.code = 0 /\ failed = {} /\ cfg.optional) =>
        BinOwner(W1, "cli") = "a"

\* C28: the manifests of two different (symlink-resolved) directories the
\* run has started a task for never have the same lifecycle key, and so a
\* task that has gone past its preinstall step has run the preinstall script
\* its manifest declares.
LifecycleKeyDistinguishesDirectories ==
    /\ \A d1, d2 \in Mods : \A s \in Scripts :
          (d1 # d2 /\ tpc[d1] # "idle" /\ tpc[d2] # "idle") =>
              lifecycleScriptKey(cfg, d1, s) # lifecycleScriptKey(cfg, d2, s)
    /\ \A d \in Mods :
          (/\ ~cfg.ignoreScripts
           /\ tpc[d] \notin {"idle", "preinstall"}
           /\ "preinstall" \in Manifest(cfg, d).scripts)
          => scriptRuns[<<d, "preinstall">>] >= 1

\* C29: a call of runLifecycleScript for a script name the manifest does
\* not have (no scripts map, or no such name in it) returns nil: the task
\* goes on to its next step, no script is executed and nothing is logged as
\* failed or cancelled.
MissingScriptIsNoOp ==
    [][\A d \in Mods :
          (/\ tpc[d] \in Scripts
           /\ tpc[d] \notin Manifest(cfg, d).scripts
           /\ tpc'[d] # tpc[d])
          => /\ tpc'[d] = AfterScript(tpc[d])
             /\ scriptRuns' = scriptRuns
             /\ scriptState' = scriptState
             /\ ctxDone' = ctxDone
             /\ cancelCalls' = cancelCalls
             /\ failed' = failed]_vars

\* w2, which declares no postinstall script, and the cached package a, which
\* declares neither preinstall nor postinstall, have finished in a run that
\* nothing cancelled, having run the install scripts they do declare.
MissingScriptsSkipped ==
    /\ cfg.w2Name = "lib"
    /\ ctxDone = NoCause
    /\ failed = {}
    /\ tpc[W2] = "done"
    /\ scriptState[<<W2, "install">>] = "ok"
    /\ scriptRuns[<<W2, "postinstall">>] = 0
    /\ \E v \in {1, 2} :
          /\ tpc[<<"npm", "a", v>>] = "done"
          /\ scriptState[<<<<"npm", "a", v>>, "install">>] = "ok"
          /\ scriptRuns[<<<<"npm", "a", v>>, "preinstall">>] = 0

\* C30: in a run with ignoreScripts no lifecycle script of any workspace or
\* of any cached package is ever started.
IgnoreScriptsRunsNone ==
    cfg.ignoreScripts =>
        \A x \in Mods \X Scripts :
            scriptRuns[x] = 0 /\ scriptState[x] = "none"

\* A run with ignoreScripts has installed both workspaces and, through the
\* recursive call, a cached version of a, which declares an install script.
InstalledWithoutScripts ==
    /\ cfg.ignoreScripts
    /\ ctxDone = NoCause
    /\ tpc[W1] = "done" /\ tpc[W2] = "done"
    /\ links[<<W1, "a">>] # NoLink /\ links[<<W2, "a">>] # NoLink
    /\ \E v \in {1, 2} : tpc[<<"npm", "a", v>>] = "done"

\* C15: the version linked at node_modules/<k> is the highest version the
\* registry offers that satisfies the range of the entry, whatever versions
\* of the package the cache holds.
HighestVersionLinked ==
    \A p \in Producers :
        links[p] # NoLink =>
            KeyOfLoc(links[p])[3] =
                Npm_Resolve(DepOf(cfg, p).pkg, DepOf(cfg, p).range)

(***************************************************************************)
(* Properties of the package cache (SpecCache).                            *)
(***************************************************************************)

\* Positions of CachePut between taking the key's lock and releasing it.
Working == {"stat", "download", "copy", "verify", "extract", "rename"}

ChecksumMismatchLeavesNothing ==
    /\ [][\A c \in Callers :
            (cpc[c] = "verify" /\ cpc'[c] # "verify") =>
                /\ gotSum[c] = Digest(tmpFiles[c].content)
                /\ IF gotSum[c] # expSum[keyOf[c]]
                   THEN /\ result'[c] = Fail("checksum mismatch")
                        /\ staging[c] = NoDir
                        /\ staging'[c] = NoDir
                        /\ finalDir' = finalDir
                        /\ tmpFiles'[c] = NoFile
                   ELSE result'[c].err # "checksum mismatch"]_vars
    /\ [](\A c \in Callers :
            result[c].err = "checksum mismatch" =>
                tmpFiles[c] = NoFile /\ staging[c] = NoDir)

\* A call downloaded an archive, returned the checksum-mismatch error and
\* left neither a temp file nor a final directory.
MismatchReturned ==
    \E c \in Callers :
        /\ cpc[c] = "done"
        /\ result[c].err = "checksum mismatch"
        /\ downloads[c] = 1
        /\ tmpFiles[c] = NoFile
        /\ finalDir[keyOf[c]] = NoDir

\* C12: when a CachePut call has returned, on whatever path, neither its
\* .download-*.tmp file nor its .extract-* staging directory is on disk.
TempArtifactsCleaned ==
    \A c \in Callers :
        cpc[c] = "done" => (tmpFiles[c] = NoFile /\ staging[c] = NoDir)

\* C13: a CachePut call whose download is under way when the run is
\* cancelled returns a cancellation error, leaves the status entry of its
\* package cleared, has never set an ErrorStatus, creates no final
\* directory, and the process exits with code 1.
CancelledDownloadIsSilent ==
    /\ [][\A c \in Callers :
            (cpc[c] = "copy" /\ ctxDone # NoCause /\ cpc'[c] # "copy") =>
                /\ result'[c].err \in CancelErrs
                /\ statuses'[keyOf[c]] = None
                /\ ~errorShown'[c]
                /\ staging'[c] = NoDir
                /\ finalDir' = finalDir]_vars
    /\ [](\A c \in Callers :
            (cpc[c] = "done" /\ result[c].err \in CancelErrs) =>
                ~errorShown[c])
    /\ []((exit # NoExit /\ ctxDone # NoCause) => exit.code = 1)

\* The run was cancelled while a call was downloading: the call returned
\* context.Canceled, its status entry is cleared, the key has no final
\* directory and the process has exited with code 1.
DownloadCancelledBySignal ==
    \E c \in Callers :
        /\ result[c].err = "context canceled"
        /\ downloads[c] = 1
        /\ statuses[keyOf[c]] = None
        /\ finalDir[keyOf[c]] = NoDir
        /\ exit.code = 1

\* C33: a caller that is about to take the lock of its key is never kept
\* out by a caller of another key: whoever holds cacheLock is a caller of
\* the same key, or finds the mutex of its own key free and lets go at once.
DifferentKeysNeverBlock ==
    \A c \in Callers :
        cpc[c] = "call" =>
            \A h \in cacheLock :
                keyOf[h] = keyOf[c] \/ KeyMutexFree(keyOf[h])

\* C34: every CachePut call returns in the end, whatever the keys of the
\* calls and the order of their steps.
EveryCachePutReturns == <>(\A c \in Callers : cpc[c] = "done")

\* Two calls for one key and a call for another key have all returned,
\* the second call for the shared key having found the entry of the first.
ContendedCallsReturned ==
    /\ \A c \in Callers : cpc[c] = "done"
    /\ \A c \in Callers : result[c].ok
    /\ downloads[1] + downloads[2] = 1

TarballSavedAfterSuccess ==
    [][\A k \in Keys :
          tarballCache'[k] # tarballCache[k] =>
              /\ Digest(tarballCache'[k].content) = expSum[k]
              /\ finalDir[k] # NoDir]_vars

\* C26: a file of the tarball cache takes the place of a download only when
\* its recomputed digest equals the expected checksum of the Resolveable.
CachedTarballMatchesExpected ==
    [][\A c \in Callers :
          (cpc[c] = "download" /\ cpc'[c] = "verify") =>
              Digest(tarballCache[keyOf[c]].content) = expSum[keyOf[c]]]_vars


(***************************************************************************)
(* Properties of the extractor (SpecExtract).                              *)
(***************************************************************************)

\* C3: every filesystem object the extractor creates or writes lies inside
\* the staging directory, whatever the archive's entries are.
WritesStayInStaging == \A p \in touched : IsPrefix(StagingDir, p)

\* A directory the walk cannot come to: it is matched by the ignore matcher,
\* or it lies below a directory that is matched or cannot be read.
Unreachable(d) ==
    \/ wtree[d].state = "ignored"
    \/ /\ WalkParent(d) # None
       /\ \/ wtree[WalkParent(d)].state # "plain"
          \/ WalkParent(WalkParent(d)) # None
             /\ wtree[WalkParent(WalkParent(d))].state # "plain"

\* C32: when FindSubMods has returned, every directory with a manifest the
\* walk can come to is among the returned mods, also the directories that
\* come after a directory whose reading failed.
WalkErrorDoesNotAbort ==
    wpc = "done" =>
        \A d \in WalkDirs :
            (wtree[d].mod /\ ~Unreachable(d)) =>
                \E i \in 1..Len(subMods) : subMods[i] = d

\* C35: in every execution all the runGo goroutines of a stream return and
\* the channel is closed in the end, also when the task has stopped
\* receiving without a cancellation.
ProducersFinishAndClose == <>(srun = 0 /\ ssend = 0 /\ sclosed)

\* C40: no task is at a write of the map ignoreMatchers while another task
\* is at a read or at a write of it, and the runtime never finds the map
\* accessed concurrently.
IgnoreMatchersExclusive ==
    /\ ~ifatal
    /\ \A c \in IgnoreCallers : ipc[c] = "store" => ~OtherAtMap(c)

\* A name one of whose segments is "..".
HasDotDot(name) == \E i \in 1..Len(name.comps) : name.comps[i] = ".."

\* A hardlink header whose linkname does not name a path below the root.
HardlinkOutsideRoot(hdr, root) ==
    LET ln == normalizeTarPath(hdr.linkname)
        lt == trimTarPath(ln.path, root)
    IN  ln.err # None \/ ~lt.ok \/ lt.path = <<>>

\* C31: an extraction that has succeeded read no header whose name has a
\* ".." segment, no symlink header with an absolute target and no hardlink
\* header whose target is outside the package root.
UnsafeArchivesFail ==
    xpc = "done" =>
        \A i \in 1..Len(archive) :
            LET hdr == archive[i] IN
            Considered(hdr) =>
                /\ ~HasDotDot(hdr.name)
                /\ ~(hdr.type = "symlink" /\ hdr.linkname.abs)
                /\ ~(hdr.type = "link" /\ HardlinkOutsideRoot(hdr, rootDir))

\* C16: when the extraction has succeeded, the path package.json directly
\* under the "package" directory of the extracted entry leads to a file.
PackageJSONIsFile ==
    xpc = "done" =>
        LET r == Resolve(fs, AbsDest \o <<"package.json">>, TRUE)
        IN  /\ r.ok
            /\ r.path \in DOMAIN fs
            /\ fs[r.path].kind = "file"


(***************************************************************************)
(* Properties of the manifest operations (SpecManifest).                   *)
(***************************************************************************)

\* C18: starting from a manifest in which every package name is in at most
\* one of dependencies, devDependencies and optionalDependencies, after any
\* sequence of config.Install and config.Uninstall calls every package name
\* is still in at most one of the three maps.
NameInAtMostOneMap ==
    \A n \in PackNames : Occurrences(mod, n) <= 1


(***************************************************************************)
(* Properties of the recursion of Run (FairSpecCycle).                     *)
(***************************************************************************)

\* The recursive calls of Run whose root is the directory d.
RecursiveCallsInto(d) ==
    { i \in 2..Len(calls) : EvalSymlinks(calls[i]) = FilePath(d, "real") }

\* C19: with file: packages that reference each other or the root
\* workspace, Run is called recursively at most once for every directory,
\* and every call of Run that was made eventually returns.
RunTerminates ==
    /\ [](\A d \in FileDirs : Cardinality(RecursiveCallsInto(d)) <= 1)
    /\ [](Len(calls) <= 1 + Cardinality(FileDirs))
    /\ \A i \in 1..MaxRunCalls : [](i <= Len(calls) => <>Returned(i))

\* The root workspace and the package below it name each other; the
\* recursion has come back to the root once and every call has returned.
CycleThroughRootReturned ==
    /\ FilePath("sub", "real") \in fileDeps["root"]
    /\ FilePath("root", "real") \in fileDeps["sub"]
    /\ Cardinality(RecursiveCallsInto("root")) = 1
    /\ \A i \in 1..Len(calls) : Returned(i)


(***************************************************************************)
(* Properties of secureJoin (SpecJoin).                                    *)
(***************************************************************************)

\* The path p is the directory base or lies below it.
Inside(base, p) ==
    /\ Len(p) >= Len(base)
    /\ \A i \in 1..Len(base) : p[i] = base[i]

\* Walking the name from base one component at a time leaves base at some
\* point.
ClimbsAbove(base, name) ==
    \E i \in 1..Len(name.comps) :
        ~Inside(Clean(base, TRUE),
                Clean(base \o SubSeq(name.comps, 1, i), TRUE))

\* C17: a call of secureJoin that returns a path returns the cleaned join of
\* base and name, that path is abs(base) or lies below it, and the name is
\* not absolute; so a name that is absolute, or whose join with base lies
\* outside base, is rejected.
SecureJoinStaysInside ==
    joinResult # NoJoin =>
        LET full == Clean(joinBase \o joinName.comps, TRUE) IN
        /\ joinResult.err = None =>
               /\ ~joinName.abs
               /\ joinResult.path = full
               /\ Inside(Clean(joinBase, TRUE), joinResult.path)
        /\ (joinName.abs \/ ~Inside(Clean(joinBase, TRUE), full)) =>
               joinResult.err # None

\* A name with a ".." segment was accepted and joined to a path below base.
JoinAcceptedBelowBase ==
    /\ joinResult.err = None
    /\ \E i \in 1..Len(joinName.comps) : joinName.comps[i] = ".."
    /\ Len(joinResult.path) > Len(joinBase)

\* C17 as stated: every name that is absolute or that climbs above base
\* through ".." segments is rejected.
ClimbingNamesRejected ==
    (joinResult # NoJoin
        /\ (joinName.abs \/ ClimbsAbove(joinBase, joinName)))
    => joinResult.err # None


(***************************************************************************)
(* Properties of the status UI (SpecStatusUI).                             *)
(***************************************************************************)

\* C20: the status UI is stopped (program is nil) or running.  Start makes
\* a program over an empty model and returns nil exactly when the UI is
\* stopped, and returns an error and changes nothing when it is running;
\* Stop leaves the UI stopped; while it is stopped, Set, Clear, Stop and a
\* message that is still on its way change nothing and do not fail, and
\* Set returns false.
StatusUITwoStates ==
    [][\A u \in UiClients :
          /\ Start(u) =>
                IF program = 0
                THEN /\ program' # 0
                     /\ uret'[u] = "nil"
                     /\ statuses' = initialModel
                ELSE /\ uret'[u] = "TUI already running"
                     /\ program' = program
                     /\ statuses' = statuses
          /\ Stop(u) => program' = 0
          /\ (program = 0 /\ (Set(u) \/ Clear(u) \/ Stop(u) \/ SendMsg(u))) =>
                /\ program' = 0
                /\ statuses' = statuses
                /\ upc'[u] = "idle"
                /\ uret'[u] \in {"false", "void", "true"}
                /\ Set(u) => uret'[u] = "false"
      ]_vars

\* The UI was stopped and started again: the second program is running, a
\* Start on it has failed and a status has been set on it.
RestartedAndRunning ==
    /\ started = 2
    /\ program = 2
    /\ \E u \in UiClients : uret[u] = "TUI already running"
    /\ \E k \in Keys : statuses[k] # None


(***************************************************************************)
(* Properties of model.Update (SpecModel).                                 *)
(***************************************************************************)

\* C21: a clearStatusMsg removes exactly its key: the status of every other
\* key and the order of the other keys stay as they were; and whenever the
\* model does not hold tmKey, it is the model the messages about the other
\* keys alone would have produced, so later messages act on it as if tmKey
\* had never been set.
ClearRemovesOnlyItsKey ==
    /\ [][\A key \in ModelKeys :
            ClearStatus(key) =>
                /\ tm'.statuses[key] = None
                /\ ~Contains(tm'.keys, key)
                /\ \A k \in ModelKeys \ {key} :
                       tm'.statuses[k] = tm.statuses[k]
                /\ Without(tm'.keys, key) = Without(tm.keys, key)
                /\ tm'.keys = Without(tm.keys, key)]_vars
    /\ []((tm.statuses[tmKey] = None /\ ~Contains(tm.keys, tmKey))
             => tm = tmShadow)
    /\ [](View(UpdateModel(tm, clearStatusMsg(tmKey))) = View(tmShadow))

\* pkg2 was set between the two other keys and has just been cleared; the
\* other two keys are shown in their order.
MiddleKeyCleared ==
    /\ tmKey = "pkg2"
    /\ tmLast = clearStatusMsg("pkg2")
    /\ tm.keys = <<"pkg1", "pkg3">>
    /\ tm.statuses["pkg1"] = "text"
    /\ tm.statuses["pkg3"] = "text"
    /\ tmShadow = tm


(***************************************************************************)
(* Properties of shouldProcessPackage (SpecProcess).                       *)
(***************************************************************************)

\* The calls about a path of directory d that have returned true.
TrueCalls(d) ==
    { c \in ProcessCallers :
        sret[c] = "true" /\ EvalSymlinks(spath[c]) = FilePath(d, "real") }

\* C22: under any interleaving of the callers, among the calls whose paths
\* denote the same directory (as it is or through a symlink) at most one
\* returns true.
OneTruePerDirectory ==
    \A d \in FileDirs : Cardinality(TrueCalls(d)) <= 1

\* Three callers asked about the same directory under three different
\* paths and all were past the read under RLock before one of them took the
\* write lock; all have returned and one got true.
ThreePathsOneTrue ==
    /\ \A c \in ProcessCallers : spc[c] = "done"
    /\ { spath[c] : c \in ProcessCallers } =
          { FilePath("sub", "real"), FilePath("sub", "alias"),
            FilePath("sub", "alias2") }
    /\ Cardinality({ c \in ProcessCallers : sret[c] = "false" }) = 2
    /\ Cardinality(TrueCalls("sub")) = 1


(***************************************************************************)
(* Properties of link (SpecLink).                                          *)
(***************************************************************************)

\* The link path is a symlink whose readlink is the cleaned target.
AlreadyLinked(f, original) ==
    /\ LinkPath \in DOMAIN f
    /\ f[LinkPath].kind = "symlink"
    /\ f[LinkPath].target = CleanName(original)

\* The link path is a symlink that names the target, or that leads to the
\* place the target leads to.
LinksTo(f, original) ==
    /\ LinkPath \in DOMAIN f
    /\ f[LinkPath].kind = "symlink"
    /\ \/ f[LinkPath].target = original
       \/ LET a == Resolve(f, LinkPath, TRUE)
              b == Resolve(f, original.comps, TRUE)
          IN  a.ok /\ b.ok /\ a.path = b.path

\* C23: a call of link on a link path that is a symlink whose readlink is
\* clean(target) succeeds and changes nothing; from every other prior state
\* a call that succeeds leaves the link path a symlink to the target; and a
\* second call changes nothing the first one made.
LinkIsIdempotent ==
    /\ (Len(lret) >= 1 /\ AlreadyLinked(lfs0, lorig)) =>
           lret[1] /\ lfs1 = lfs0
    /\ (Len(lret) >= 1 /\ lret[1] /\ ~AlreadyLinked(lfs0, lorig)) =>
           LinksTo(lfs1, lorig)
    /\ (Len(lret) = 2 /\ lret[1]) => lret[2] /\ lfs = lfs1

====
